---- MODULE Spec2Model ----
(***************************************************************************)
(* A model of byo-browser: the markup lexer and parser (src/src/html.rs),  *)
(* the style lexer and parser (src/src/css.rs), the tree traversal         *)
(* HtmlElement::walk / walk_trace (src/src/html.rs) and the layout policy  *)
(* the redraw handler runs on top of it (src/src/main.rs).                 *)
(*                                                                         *)
(* A Rust String is modelled as a sequence of one-character strings, a     *)
(* Vec as a sequence, an Option as a sequence of length 0 or 1, a HashMap  *)
(* as a function.  Positions are 0-based as in the source, so the element  *)
(* the source writes v[p] is v[p + 1] here.  A Rust panic (an index out of *)
(* range, an unwrap of None or of Err) is the outcome "panic".             *)
(***************************************************************************)
EXTENDS Integers, Sequences, FiniteSets, TLC

VARIABLES
    \* ---- a lexer run (tokenize_html or tokenize_css)
    lexer,          \* "html" | "css" | "none": which lexer is running
    chars,          \* the input, str.chars().collect()
    position,       \* the lexer's scan position
    tokens,         \* the tokens pushed so far
    lexpc,          \* "loop" | "done" | "panic" | "idle"
    \* ---- a parse_html call
    doc,            \* the written document the input is a prefix of
    input,          \* the document handed to parse_html
    result,         \* its outcome, or NotRun
    \* ---- a walk of a tree by the redraw handler
    html,           \* the tree walked
    stack,          \* the active walk_trace calls, innermost last
    trace,          \* the NodeTrace shared by the calls
    state,          \* the RendererState
    events,         \* the callbacks invoked so far, in order
    inserted,       \* history: layout key -> path of the node whose onEnter inserted it
    canvas,         \* the draw calls made on the canvas, in order
    walkpc,         \* "walking" | "done" | "panic" | "idle"
    \* ---- a parse_css call
    sheet,          \* the written style sheet the text is taken from
    css,            \* the text handed to parse_css
    cssresult,      \* its outcome, or CssNotRun
    \* ---- one iteration of a parser loop
    parser,         \* "html" | "css" | "none": whose tokens these are
    ptokens,        \* the parser's tokens
    ppos,           \* the parser's position when the iteration starts
    lastiter,       \* the last iteration: which loop, and how it ended
    \* ---- a parse of tokens, alone and followed by more tokens
    base,           \* the tokens of a document
    tail,           \* the tokens that follow them
    whole,          \* the outcome of parsing base, or NotRun
    extended,       \* the outcome of parsing base followed by tail, or NotRun
    \* ---- the application: window events and fetch tasks
    cur_path,       \* App.path
    html_slot,      \* App.html: which Arc<Mutex<Option<HtmlElement>>> it points to
    slots,          \* the content of every Arc made so far: None or Some(tree)
    tasks,          \* the fetch tasks spawned and not finished
    app_links,      \* App.hyper_links: the targets, in order
    handler,        \* "idle" | "spawn": where the RedrawRequested handler is
    walked,         \* history: what the walks of the redraws were given, in order
    clicks,         \* history: how many times a click has changed the path
    \* ---- the application again, a lock and an unlock at a time
    held,           \* the mutex guards alive: which mutex, held by which thread
    pending,        \* MouseInput: the cloned links and the next one to test
    mouse,          \* what mouse_cursor_position holds
    requested       \* whether a request_redraw is waiting to be delivered

lexVars == <<lexer, chars, position, tokens, lexpc>>
parseVars == <<doc, input, result>>
walkVars == <<html, stack, trace, state, events, inserted, canvas, walkpc>>
cssVars == <<sheet, css, cssresult>>
loopVars == <<parser, ptokens, ppos, lastiter>>
tailVars == <<base, tail, whole, extended>>
lockVars == <<held, pending, mouse, requested>>
appVars == <<cur_path, html_slot, slots, tasks, app_links, handler, walked, clicks,
             held, pending, mouse, requested>>
vars == <<lexer, chars, position, tokens, lexpc, doc, input, result,
          html, stack, trace, state, events, inserted, canvas, walkpc,
          sheet, css, cssresult, parser, ptokens, ppos, lastiter,
          base, tail, whole, extended,
          cur_path, html_slot, slots, tasks, app_links, handler, walked, clicks,
          held, pending, mouse, requested>>

(***************************************************************************)
(* Strings.                                                                *)
(***************************************************************************)
None == <<>>
Some(x) == <<x>>

\* `let x = e;` followed by F(x): e is evaluated once and F reads its value.
Bind(e, F(_)) == CHOOSE y \in {F(x) : x \in {e}} : TRUE
\* `let x = r?;` followed by F(x): a result that is not "ok" is returned as it
\* is, an "ok" one is handed to F.
Try(r, F(_)) == CHOOSE y \in {IF x.status # "ok" THEN x ELSE F(x) : x \in {r}} : TRUE

RECURSIVE Concat(_)
Concat(ss) == IF ss = <<>> THEN <<>> ELSE Head(ss) \o Concat(Tail(ss))

RECURSIVE Join(_, _)
\* [String]::join(sep)
Join(ss, sep) ==
    IF ss = <<>> THEN <<>>
    ELSE IF Len(ss) = 1 THEN ss[1]
    ELSE ss[1] \o sep \o Join(Tail(ss), sep)

\* str::starts_with / slice::starts_with
IsPrefix(p, s) == Len(p) <= Len(s) /\ SubSeq(s, 1, Len(p)) = p
\* slice::ends_with
IsSuffix(p, s) == Len(p) <= Len(s) /\ SubSeq(s, Len(s) - Len(p) + 1, Len(s)) = p
\* v[position..], for position <= v.len()
From(v, p) == SubSeq(v, p + 1, Len(v))

\* A whitespace test that knows the line break alone.
is_line_break(c) == c = "\n"

\* char::is_whitespace, on the characters the model draws
is_whitespace(c) == c \in {" ", "\n", "\t"}

S_DOCTYPE == <<"<", "!", "D", "O", "C", "T", "Y", "P", "E", " ", "h", "t", "m", "l", ">">>
S_textNode == <<"t", "e", "x", "t", "N", "o", "d", "e">>
S_meta == <<"m", "e", "t", "a">>
S_script == <<"s", "c", "r", "i", "p", "t">>
S_style == <<"s", "t", "y", "l", "e">>
S_display == <<"d", "i", "s", "p", "l", "a", "y">>
S_flex == <<"f", "l", "e", "x">>
S_gap == <<"g", "a", "p">>
S_gap_left == <<"g", "a", "p", "-", "l", "e", "f", "t">>
S_title == <<"t", "i", "t", "l", "e">>
S_body == <<"b", "o", "d", "y">>
S_bgcolor == <<"b", "g", "c", "o", "l", "o", "r">>
S_text == <<"t", "e", "x", "t">>
S_href == <<"h", "r", "e", "f">>
S_br == <<"b", "r">>
S_div == <<"d", "i", "v">>
S_a == <<"a">>
S_px == <<"p", "x">>
S_black == <<"#", "0", "0", "0", "0", "0", "0">>

(***************************************************************************)
(* The markup lexer: html.rs, tokenize_html.                               *)
(***************************************************************************)
Tok(k) == [kind |-> k, text |-> <<>>]
LAngle == Tok("LAngle")
RAngle == Tok("RAngle")
Slash == Tok("Slash")
Equal == Tok("Equal")
Text(t) == [kind |-> "Text", text |-> t]
QuotedText(t) == [kind |-> "QuotedText", text |-> t]

\* One lexer state: the scan position, the tokens pushed, and whether an index
\* ran out of range.
Lex(p, ts, pan) == [position |-> p, tokens |-> ts, panic |-> pan]

RECURSIVE ScanQuotedUnchecked(_, _, _)
\* The inner loop of the quoted-text branch without its bound test: chars[position]
\* is read at the end of an input that has no closing quote.
ScanQuotedUnchecked(cs, p, text) ==
    IF p >= Len(cs) THEN [position |-> p, text |-> text, panic |-> TRUE]
    ELSE IF cs[p + 1] # "\""
    THEN ScanQuotedUnchecked(cs, p + 1, Append(text, cs[p + 1]))
    ELSE [position |-> p, text |-> text, panic |-> FALSE]

RECURSIVE ScanQuotedNoBlanks(_, _, _)
\* The inner loop of the quoted-text branch with whitespace skipped instead of
\* pushed.
ScanQuotedNoBlanks(cs, p, text) ==
    IF p < Len(cs) /\ cs[p + 1] # "\""
    THEN ScanQuotedNoBlanks(cs, p + 1,
                            IF is_whitespace(cs[p + 1]) THEN text ELSE Append(text, cs[p + 1]))
    ELSE [position |-> p, text |-> text, panic |-> FALSE]

RECURSIVE ScanQuoted(_, _, _)
\* while position < chars.len() && chars[position] != '"' { text.push; position += 1 }
ScanQuoted(cs, p, text) ==
    IF p < Len(cs) /\ cs[p + 1] # "\""
    THEN ScanQuoted(cs, p + 1, Append(text, cs[p + 1]))
    ELSE [position |-> p, text |-> text, panic |-> FALSE]

RECURSIVE ScanText(_, _, _)
\* while position < chars.len() && !whitespace && != '<' && != '>' && != '='
ScanText(cs, p, text) ==
    IF p < Len(cs) /\ ~is_whitespace(cs[p + 1]) /\ cs[p + 1] \notin {"<", ">", "="}
    THEN ScanText(cs, p + 1, Append(text, cs[p + 1]))
    ELSE [position |-> p, text |-> text, panic |-> FALSE]

\* One iteration of tokenize_html's while loop, entered with p < Len(cs).
tokenize_html_iter(cs, p, ts) ==
    LET c == cs[p + 1] IN
    IF is_whitespace(c) THEN Lex(p + 1, ts, FALSE)
    ELSE IF IsPrefix(S_DOCTYPE, From(cs, p)) THEN Lex(p + Len(S_DOCTYPE), ts, FALSE)
    ELSE IF c = "<" THEN Lex(p + 1, Append(ts, LAngle), FALSE)
    ELSE IF c = ">" THEN Lex(p + 1, Append(ts, RAngle), FALSE)
    ELSE IF c = "/" THEN Lex(p + 1, Append(ts, Slash), FALSE)
    ELSE IF c = "=" THEN Lex(p + 1, Append(ts, Equal), FALSE)
    ELSE IF c = "\"" THEN
        Bind(ScanQuoted(cs, p + 1, <<>>), LAMBDA q :
            IF q.panic THEN Lex(q.position, ts, TRUE)
            ELSE Lex(q.position + 1, Append(ts, QuotedText(q.text)), FALSE))
    ELSE
        Bind(ScanText(cs, p + 1, <<c>>), LAMBDA t :
            Lex(t.position, Append(ts, Text(t.text)), t.panic))

RECURSIVE tokenize_html_from(_, _, _)
tokenize_html_from(cs, p, ts) ==
    IF p < Len(cs)
    THEN Bind(tokenize_html_iter(cs, p, ts), LAMBDA n :
            IF n.panic THEN n ELSE tokenize_html_from(cs, n.position, n.tokens))
    ELSE Lex(p, ts, FALSE)

\* tokenize_html(str)
tokenize_html(cs) == tokenize_html_from(cs, 0, <<>>)

(***************************************************************************)
(* The style lexer: css.rs, tokenize_css.                                  *)
(***************************************************************************)
LBrace == Tok("LBrace")
RBrace == Tok("RBrace")
Colon == Tok("Colon")
SemiColon == Tok("SemiColon")
Ident(t) == [kind |-> "Ident", text |-> t]

RECURSIVE ScanIdent(_, _, _)
\* while position < chars.len() && !whitespace && != '{' && != '}' && != ':' && != ';'
ScanIdent(cs, p, text) ==
    IF p < Len(cs) /\ ~is_whitespace(cs[p + 1]) /\ cs[p + 1] \notin {"{", "}", ":", ";"}
    THEN ScanIdent(cs, p + 1, Append(text, cs[p + 1]))
    ELSE [position |-> p, text |-> text, panic |-> FALSE]

\* One iteration of tokenize_css's while loop, entered with p < Len(cs).
tokenize_css_iter(cs, p, ts) ==
    LET c == cs[p + 1] IN
    IF is_whitespace(c) THEN Lex(p + 1, ts, FALSE)
    ELSE IF c = "{" THEN Lex(p + 1, Append(ts, LBrace), FALSE)
    ELSE IF c = "}" THEN Lex(p + 1, Append(ts, RBrace), FALSE)
    ELSE IF c = ":" THEN Lex(p + 1, Append(ts, Colon), FALSE)
    ELSE IF c = ";" THEN Lex(p + 1, Append(ts, SemiColon), FALSE)
    ELSE
        Bind(ScanIdent(cs, p + 1, <<c>>), LAMBDA t :
            Lex(t.position, Append(ts, Ident(t.text)), t.panic))

RECURSIVE tokenize_css_from(_, _, _)
tokenize_css_from(cs, p, ts) ==
    IF p < Len(cs)
    THEN Bind(tokenize_css_iter(cs, p, ts), LAMBDA n :
            IF n.panic THEN n ELSE tokenize_css_from(cs, n.position, n.tokens))
    ELSE Lex(p, ts, FALSE)

\* tokenize_css(str)
tokenize_css(cs) == tokenize_css_from(cs, 0, <<>>)

(***************************************************************************)
(* The markup parser: html.rs, HtmlParser and parse_html.                  *)
(* Every parser method returns [status, position, value]: status "ok" with *)
(* the parser's position afterwards and the value returned, "err" for an   *)
(* Err(anyhow::Error) and "panic" for an index past the end of the tokens. *)
(***************************************************************************)
HtmlElement(n, as, cs, t) ==
    [name |-> n, attributes |-> as, children |-> cs, text_node |-> t]
NoElement == HtmlElement(<<>>, <<>>, <<>>, None)

Ok(p, v) == [status |-> "ok", position |-> p, value |-> v]
Err(p) == [status |-> "err", position |-> p, value |-> <<>>]
Panic(p) == [status |-> "panic", position |-> p, value |-> <<>>]

\* HtmlParser::peek
peek(ts, p) == IF p < Len(ts) THEN Some(ts[p + 1]) ELSE None

\* HtmlParser::starts_with, for p <= Len(ts) (the slice tokens[p..] panics beyond)
starts_with(ts, p, pat) == IsPrefix(pat, From(ts, p))

\* expect without the comparison: any token is accepted where `token` is required.
expect_any(ts, p, token) ==
    IF p >= Len(ts) THEN Panic(p) ELSE Ok(p + 1, <<>>)

\* expect reading past the end as if the token were there.
expect_past_end(ts, p, token) ==
    IF p >= Len(ts) THEN Ok(p + 1, <<>>)
    ELSE IF ts[p + 1] # token THEN Err(p)
    ELSE Ok(p + 1, <<>>)

\* HtmlParser::expect
expect(ts, p, token) ==
    IF p >= Len(ts) THEN Panic(p)
    ELSE IF ts[p + 1] # token THEN Err(p)
    ELSE Ok(p + 1, <<>>)

\* HtmlParser::expect_text
expect_text(ts, p) ==
    IF p >= Len(ts) THEN Panic(p)
    ELSE IF ts[p + 1].kind = "Text" THEN Ok(p + 1, ts[p + 1].text)
    ELSE Err(p)

\* HtmlParser::expect_quoted_text
expect_quoted_text(ts, p) ==
    IF p >= Len(ts) THEN Panic(p)
    ELSE IF ts[p + 1].kind = "QuotedText" THEN Ok(p + 1, ts[p + 1].text)
    ELSE Err(p)

\* HtmlParser::attribute
attribute(ts, p) ==
    Try(expect_text(ts, p), LAMBDA key :
    Try(expect(ts, key.position, Equal), LAMBDA eq :
    Try(expect_quoted_text(ts, eq.position), LAMBDA val :
        Ok(val.position, <<key.value, val.value>>))))

RECURSIVE attributes_loop(_, _, _)
\* while self.peek() != Some(&RAngle) && self.peek() != Some(&Slash) { push(attribute()?) }
attributes_loop(ts, p, acc) ==
    IF peek(ts, p) # Some(RAngle) /\ peek(ts, p) # Some(Slash)
    THEN Try(attribute(ts, p), LAMBDA a :
            attributes_loop(ts, a.position, Append(acc, a.value)))
    ELSE Ok(p, acc)

\* HtmlParser::attributes
attributes(ts, p) == attributes_loop(ts, p, <<>>)

ScriptClose == <<LAngle, Slash, Text(S_script), RAngle>>

\* The scan left out: the closing sequence is expected where the content starts.
script_no_scan(ts, p) == Ok(p, <<>>)

\* The script scan, one iteration entered with the closing sequence not at p:
\* position += 1 (the loop's test slices tokens[position..], which panics once
\* position is past the end).
script_scan_step(ts, p) == IF p > Len(ts) THEN Panic(p) ELSE Ok(p + 1, <<>>)

RECURSIVE script_scan(_, _)
\* while !self.starts_with(&[LAngle, Slash, Text("script"), RAngle]) { position += 1 }
script_scan(ts, p) ==
    IF p <= Len(ts) /\ starts_with(ts, p, ScriptClose) THEN Ok(p, <<>>)
    ELSE Try(script_scan_step(ts, p), LAMBDA n : script_scan(ts, n.position))

\* The four expects that consume a closing tag </name>.
closing_tag(ts, p, name) ==
    Try(expect(ts, p, LAngle), LAMBDA l :
    Try(expect(ts, l.position, Slash), LAMBDA s :
    Try(expect(ts, s.position, Text(name)), LAMBDA n :
        expect(ts, n.position, RAngle))))

RECURSIVE element(_, _), elements_loop(_, _, _)

\* HtmlParser::element, after the opening tag's name and attributes
element_rest(ts, name, attrs) ==
    IF peek(ts, attrs.position) = Some(Slash)
    THEN Try(expect(ts, attrs.position, Slash), LAMBDA s :
         Try(expect(ts, s.position, RAngle), LAMBDA r :
             Ok(r.position, HtmlElement(name, attrs.value, <<>>, None))))
    ELSE
    Try(expect(ts, attrs.position, RAngle), LAMBDA r :
        IF name = S_meta
        THEN Ok(r.position, HtmlElement(name, attrs.value, <<>>, None))
        ELSE IF name = S_script
        THEN Try(script_scan(ts, r.position), LAMBDA sc :
             Try(closing_tag(ts, sc.position, S_script), LAMBDA c :
                 Ok(c.position, HtmlElement(name, attrs.value, <<>>, None))))
        ELSE Try(elements_loop(ts, r.position, <<>>), LAMBDA children :
             Try(closing_tag(ts, children.position, name), LAMBDA c :
                 Ok(c.position, HtmlElement(name, attrs.value, children.value, None)))))

\* HtmlParser::element
element(ts, p) ==
    IF p < Len(ts) /\ ts[p + 1].kind = "Text"
    THEN Try(expect_text(ts, p), LAMBDA t :
            Ok(t.position, HtmlElement(S_textNode, <<>>, <<>>, Some(t.value))))
    ELSE
    Try(expect(ts, p, LAngle), LAMBDA l :
    Try(expect_text(ts, l.position), LAMBDA name :
    Try(attributes(ts, name.position), LAMBDA attrs :
        element_rest(ts, name.value, attrs))))

\* HtmlParser::elements
elements_loop(ts, p, acc) ==
    IF p < Len(ts) /\ ~starts_with(ts, p, <<LAngle, Slash>>)
    THEN Try(element(ts, p), LAMBDA e :
            elements_loop(ts, e.position, Append(acc, e.value)))
    ELSE Ok(p, acc)

\* The parse with every token required to belong to the element.
parse_tokens_all(ts) ==
    Bind(element(ts, 0), LAMBDA e :
        [status |-> IF e.status = "ok" /\ e.position # Len(ts) THEN "err" ELSE e.status,
         value |-> IF e.status = "ok" /\ e.position = Len(ts) THEN e.value ELSE NoElement,
         position |-> e.position,
         tokens |-> ts])

\* parse_html, from the tokens on: HtmlParser::new(tokens) and one call of
\* element (html.rs 379-383).
parse_tokens(ts) ==
    Bind(element(ts, 0), LAMBDA e :
        [status |-> e.status,
         value |-> IF e.status = "ok" THEN e.value ELSE NoElement,
         position |-> e.position,
         tokens |-> ts])

\* parse_html(str): the outcome, the tree returned (NoElement when none is) and,
\* for reference, the tokens and the parser's final position.
parse_html(str) ==
    Bind(tokenize_html(str), LAMBDA lexed :
        IF lexed.panic
        THEN [status |-> "panic", value |-> NoElement, position |-> 0,
              tokens |-> lexed.tokens]
        ELSE parse_tokens(lexed.tokens))

NotRun == [status |-> "none", value |-> NoElement, position |-> 0, tokens |-> <<>>]

(***************************************************************************)
(* The style parser: css.rs, CssParser and parse_css.                      *)
(***************************************************************************)
Style(sel, rs) == [selector |-> sel, rules |-> rs]

\* CssParser::peek
css_peek(ts, p) == IF p < Len(ts) THEN Some(ts[p + 1]) ELSE None

\* CssParser::expect
css_expect(ts, p, token) ==
    IF p >= Len(ts) THEN Panic(p)
    ELSE IF ts[p + 1] # token THEN Err(p)
    ELSE Ok(p + 1, <<>>)

\* CssParser::expect_ident
expect_ident(ts, p) ==
    IF p >= Len(ts) THEN Panic(p)
    ELSE IF ts[p + 1].kind = "Ident" THEN Ok(p + 1, ts[p + 1].text)
    ELSE Err(p)

\* CssParser::rules, one iteration: ident : value ;
css_rule(ts, p) ==
    Try(expect_ident(ts, p), LAMBDA ident :
    Try(css_expect(ts, ident.position, Colon), LAMBDA c :
    Try(expect_ident(ts, c.position), LAMBDA val :
    Try(css_expect(ts, val.position, SemiColon), LAMBDA sc :
        Ok(sc.position, <<ident.value, val.value>>)))))

RECURSIVE css_rules_prepend(_, _, _)
\* CssParser::rules with each declaration put in front of those read before it.
css_rules_prepend(ts, p, acc) ==
    IF p < Len(ts) /\ ts[p + 1].kind = "Ident"
    THEN Try(css_rule(ts, p), LAMBDA rule :
            css_rules_prepend(ts, rule.position, <<rule.value>> \o acc))
    ELSE Ok(p, acc)

RECURSIVE css_rules_loop(_, _, _)
\* CssParser::rules
css_rules_loop(ts, p, acc) ==
    IF p < Len(ts) /\ ts[p + 1].kind = "Ident"
    THEN Try(css_rule(ts, p), LAMBDA rule :
            css_rules_loop(ts, rule.position, Append(acc, rule.value)))
    ELSE Ok(p, acc)

\* CssParser::style
css_style(ts, p) ==
    Try(expect_ident(ts, p), LAMBDA ident :
        IF css_peek(ts, ident.position) = Some(LBrace)
        THEN Try(css_expect(ts, ident.position, LBrace), LAMBDA l :
             Try(css_rules_loop(ts, l.position, <<>>), LAMBDA rs :
             Try(css_expect(ts, rs.position, RBrace), LAMBDA r :
                 Ok(r.position, Style(Some(ident.value), rs.value)))))
        ELSE IF css_peek(ts, ident.position) = Some(Colon)
        THEN Try(css_rules_loop(ts, p, <<>>), LAMBDA rs :
                 Ok(rs.position, Style(None, rs.value)))
        ELSE Err(ident.position))

RECURSIVE css_styles_prepend(_, _, _)
\* styles with each record put in front of those parsed before it.
css_styles_prepend(ts, p, acc) ==
    IF p < Len(ts)
    THEN Try(css_style(ts, p), LAMBDA st :
            css_styles_prepend(ts, st.position, <<st.value>> \o acc))
    ELSE Ok(p, acc)

RECURSIVE css_styles_loop(_, _, _)
\* CssParser::styles
css_styles_loop(ts, p, acc) ==
    IF p < Len(ts)
    THEN Try(css_style(ts, p), LAMBDA st :
            css_styles_loop(ts, st.position, Append(acc, st.value)))
    ELSE Ok(p, acc)

\* parse_css(str): the outcome and the style records returned (none unless "ok").
parse_css(str) ==
    Bind(tokenize_css(str), LAMBDA lexed :
        IF lexed.panic
        THEN [status |-> "panic", styles |-> <<>>, position |-> 0, tokens |-> lexed.tokens]
        ELSE Bind(css_styles_loop(lexed.tokens, 0, <<>>), LAMBDA r :
                [status |-> r.status,
                 styles |-> IF r.status = "ok" THEN r.value ELSE <<>>,
                 position |-> r.position,
                 tokens |-> lexed.tokens]))

CssNotRun == [status |-> "none", styles |-> <<>>, position |-> 0, tokens |-> <<>>]

(***************************************************************************)
(* Inputs.                                                                 *)
(***************************************************************************)
\* The longest lexer input drawn (not counting an inserted <!DOCTYPE html>).
MaxLexLen == 4
\* The most nodes of a written document whose structure is enumerated.
MaxDocNodes == 3
\* The most words of an element's text content.
MaxWords == 3

RECURSIVE Strings(_, _)
\* Every sequence over alphabet A of length at most n.
Strings(A, n) ==
    IF n = 0 THEN {<<>>}
    ELSE LET S == Strings(A, n - 1) IN
         S \cup {Append(s, c) : s \in {t \in S : Len(t) = n - 1}, c \in A}

HtmlChars == {"<", ">", "/", "=", "\"", " ", "a"}
CssChars == {"{", "}", ":", ";", " ", "\n", "a"}

\* Markup lexer inputs: every string of at most n characters, and every string of
\* at most n - 2 with the literal <!DOCTYPE html> inserted somewhere.
HtmlLexInputs(n) ==
    Strings(HtmlChars, n)
        \cup UNION {{SubSeq(s, 1, k) \o S_DOCTYPE \o SubSeq(s, k + 1, Len(s)) : k \in 0..Len(s)}
                    : s \in Strings(HtmlChars, n - 2)}
CssLexInputs(n) == Strings(CssChars, n)

LexIdle ==
    /\ lexer = "none" /\ chars = <<>> /\ position = 0 /\ tokens = <<>> /\ lexpc = "idle"

(***************************************************************************)
(* Written documents.  A document is written from a tree of nodes: a word, *)
(* a self-closing tag (with or without a blank before its /), an opening   *)
(* tag alone (meta), or an opening tag, the children and a closing tag     *)
(* whose name is written as `close`.                                       *)
(***************************************************************************)
DText(w) ==
    [form |-> "text", name |-> w, attributes |-> <<>>, children |-> <<>>,
     close |-> <<>>, space |-> FALSE]
DSelf(n, as, sp) ==
    [form |-> "self", name |-> n, attributes |-> as, children |-> <<>>,
     close |-> <<>>, space |-> sp]
DVoid(n, as) ==
    [form |-> "void", name |-> n, attributes |-> as, children |-> <<>>,
     close |-> <<>>, space |-> FALSE]
DElem(n, as, cs, cl) ==
    [form |-> "elem", name |-> n, attributes |-> as, children |-> cs,
     close |-> cl, space |-> FALSE]

S_b == <<"b">>
S_k == <<"k">>
S_p == <<"p">>
DocNames == {S_a, S_script, S_meta}
DocWords == {<<"x">>, <<"y", "z">>, <<"a", "/", "b">>, <<"q", "\"", "r">>, <<"!", ".">>}
AttrLists ==
    {<<>>, <<<<S_k, <<"v">>>>>>, <<<<S_k, <<"v", " ", "w">>>>, <<S_href, <<>>>>>>}

RECURSIVE DocsOfSize(_), DocForests(_)
\* The documents of exactly n nodes built from one word, elements without
\* attributes, and closing tags that name the element or another name.
DocsOfSize(n) ==
    IF n = 1
    THEN {DText(<<"x">>)}
         \cup {DElem(nm, <<>>, <<>>, IF mis THEN S_b ELSE nm) : nm \in DocNames, mis \in BOOLEAN}
    ELSE UNION {{DElem(nm, <<>>, kids, IF mis THEN S_b ELSE nm) : nm \in DocNames, mis \in BOOLEAN}
                : kids \in DocForests(n - 1)}
DocForests(m) ==
    IF m = 0 THEN {<<>>}
    ELSE UNION {{<<t>> \o f : t \in DocsOfSize(k), f \in DocForests(m - k)} : k \in 1..m}

StructDocs(n) == UNION {DocsOfSize(j) : j \in 1..n}

\* Single tags with every attribute list, alone and as the child of <p> ... </p>.
TagDocs ==
    LET tags == {DSelf(nm, as, sp) : nm \in DocNames \cup {S_br}, as \in AttrLists,
                                     sp \in BOOLEAN}
                \cup {DVoid(S_meta, as) : as \in AttrLists}
                \cup {DElem(nm, as, <<>>, nm) : nm \in DocNames, as \in AttrLists}
                \cup {DElem(nm, as, <<DText(<<"x">>)>>, nm) : nm \in DocNames, as \in AttrLists}
    IN tags \cup {DElem(S_p, <<>>, <<t>>, S_p) : t \in tags}
             \cup {DElem(S_p, <<>>, <<t, DText(<<"x">>)>>, S_p) : t \in tags}

\* An element whose content is up to w words.
WordDocs(w) ==
    UNION {{DElem(S_p, <<>>, [i \in 1..n |-> DText(f[i])], S_p) : f \in [1..n -> DocWords]}
           : n \in 0..w}

\* Elements written under the name the parser gives to text leaves, alone and as
\* the child of <p> ... </p>.
ReservedDocs ==
    LET tags == {DElem(S_textNode, as, kids, S_textNode)
                    : as \in AttrLists, kids \in {<<>>, <<DText(<<"x">>)>>}}
    IN tags \cup {DElem(S_p, <<>>, <<t>>, S_p) : t \in tags}

Docs(n, w) == StructDocs(n) \cup TagDocs \cup WordDocs(w) \cup ReservedDocs

RECURSIVE RenderAttrs(_)
RenderAttrs(as) ==
    IF as = <<>> THEN <<>>
    ELSE <<" ">> \o as[1][1] \o <<"=", "\"">> \o as[1][2] \o <<"\"">> \o RenderAttrs(Tail(as))

RECURSIVE Render(_)
\* The text of a written document.
Render(d) ==
    IF d.form = "text" THEN d.name
    ELSE IF d.form = "self"
    THEN <<"<">> \o d.name \o RenderAttrs(d.attributes)
         \o (IF d.space THEN <<" ">> ELSE <<>>) \o <<"/", ">">>
    ELSE IF d.form = "void"
    THEN <<"<">> \o d.name \o RenderAttrs(d.attributes) \o <<">">>
    ELSE <<"<">> \o d.name \o RenderAttrs(d.attributes) \o <<">">>
         \o Join([i \in 1..Len(d.children) |-> Render(d.children[i])], <<" ">>)
         \o <<"<", "/">> \o d.close \o <<">">>

RECURSIVE NoScriptClose(_)
\* d writes no closing tag named script.
NoScriptClose(d) ==
    /\ ~(d.form = "elem" /\ d.close = S_script)
    /\ \A i \in 1..Len(d.children) : NoScriptClose(d.children[i])

RECURSIVE WellWritten(_, _)
\* Every tag of d is written in a form of the grammar: a self-closing tag has a
\* blank or an attribute value before its /, only meta is written without a
\* closing tag, the content of a script has no </script> of its own, and (unless
\* mis) every other element is closed under its own name.
WellWritten(d, mis) ==
    CASE d.form = "text" -> TRUE
      [] d.form = "self" -> d.space \/ d.attributes # <<>>
      [] d.form = "void" -> d.name = S_meta
      [] OTHER ->
            IF d.name = S_meta THEN FALSE
            ELSE IF d.name = S_script
            THEN /\ d.close = S_script
                 /\ \A i \in 1..Len(d.children) : NoScriptClose(d.children[i])
            ELSE /\ mis \/ d.close = d.name
                 /\ \A i \in 1..Len(d.children) : WellWritten(d.children[i], mis)

ParseIdle == input = <<>> /\ result = NotRun /\ doc = DText(<<>>)

(***************************************************************************)
(* The layout policy: main.rs, the two closures window_event hands to      *)
(* HtmlElement::walk.  Coordinates are whole numbers; the text backend     *)
(* (skia) is a fixed advance per character.                                *)
(***************************************************************************)
LeftMargin == 25
LineHeight == 36
ContentTop == 120
FontSize == 32
DefaultGap == 8
GlyphWidth == 10
GlyphHeight == 30

\* NodeTrace::names
names(tr) == [i \in 1..Len(tr) |-> tr[i][1]]

RECURSIVE find_last(_, _)
\* The value of the last pair with key k.
find_last(pairs, k) ==
    IF pairs = <<>> THEN None
    ELSE IF find_last(Tail(pairs), k) # None THEN find_last(Tail(pairs), k)
    ELSE IF pairs[1][1] = k THEN Some(pairs[1][2])
    ELSE None

RECURSIVE find(_, _)
\* pairs.iter().find(|(key, _)| key == k): the value of the first pair with key k
find(pairs, k) ==
    IF pairs = <<>> THEN None
    ELSE IF pairs[1][1] = k THEN Some(pairs[1][2])
    ELSE find(Tail(pairs), k)

Digit(d) == <<"0", "1", "2", "3", "4", "5", "6", "7", "8", "9">>[d + 1]
RECURSIVE ToDecimal(_)
\* format!("{}", n) for a usize
ToDecimal(n) == IF n < 10 THEN <<Digit(n)>> ELSE ToDecimal(n \div 10) \o <<Digit(n % 10)>>

DigitValue(c) ==
    CASE c = "0" -> 0 [] c = "1" -> 1 [] c = "2" -> 2 [] c = "3" -> 3 [] c = "4" -> 4
      [] c = "5" -> 5 [] c = "6" -> 6 [] c = "7" -> 7 [] c = "8" -> 8 [] c = "9" -> 9
      [] OTHER -> -1

RECURSIVE trim_end_px(_)
\* str::trim_end_matches("px")
trim_end_px(t) ==
    IF IsSuffix(S_px, t) THEN trim_end_px(SubSeq(t, 1, Len(t) - 2)) ELSE t

RECURSIVE ParseDigits(_, _)
ParseDigits(t, acc) ==
    IF t = <<>> THEN acc
    ELSE IF DigitValue(t[1]) < 0 THEN -1
    ELSE ParseDigits(Tail(t), 10 * acc + DigitValue(t[1]))

\* str::parse::<f32>() on the values the model draws (whole numbers, with or
\* without a sign): Some(number), or None where parse returns Err
parse_f32(t) ==
    LET signed == t # <<>> /\ t[1] \in {"-", "+"}
        digits == IF signed THEN Tail(t) ELSE t
        n == IF digits = <<>> THEN -1 ELSE ParseDigits(digits, 0)
    IN IF n < 0 THEN None
       ELSE IF signed /\ t[1] = "-" THEN Some(0 - n) ELSE Some(n)

HexChars == {"0", "1", "2", "3", "4", "5", "6", "7", "8", "9",
             "a", "b", "c", "d", "e", "f", "A", "B", "C", "D", "E", "F"}
RECURSIVE trim_start_hash(_)
trim_start_hash(t) == IF t # <<>> /\ t[1] = "#" THEN trim_start_hash(Tail(t)) ELSE t

\* PaintExt::set_color_hex: whether u32::from_str_radix(.., 16) returns Ok
set_color_hex_ok(hex) ==
    LET c == trim_start_hash(hex) IN
    /\ c # <<>> /\ Len(c) <= 8
    /\ \A i \in 1..Len(c) : c[i] \in HexChars

\* Font::measure_str
measure_str(t) == [width |-> GlyphWidth * Len(t), height |-> GlyphHeight]

RendererState(hl, cc, cp, lay) ==
    [hyper_links |-> hl, current_color |-> cc, cursor_position |-> cp, layout |-> lay]

\* The state a redraw starts the walk with.
InitialRendererState ==
    RendererState(<<>>, S_black, <<LeftMargin, ContentTop + LineHeight>>, <<>>)

\* HashMap::insert of the same value under every key of a set
insert_all(lay, keys, v) ==
    [k \in DOMAIN lay \cup keys |-> IF k \in keys THEN v ELSE lay[k]]

\* The key of child i without the index.
gap_key_by_name(tr, child, i) ==
    Join(names(tr), <<":">>) \o <<":">> \o child.name \o <<".">> \o S_gap_left

\* The key under which onEnter records the override of child i.
gap_key(tr, child, i) ==
    Join(names(tr), <<":">>) \o <<":">> \o child.name
        \o <<"[">> \o ToDecimal(i) \o <<"]">> \o <<".">> \o S_gap_left

\* The looked-up key without the index.
own_gap_key_no_index(tr, index) == Join(names(tr), <<":">>) \o <<".">> \o S_gap_left

\* The key under which onEnter looks its own override up.
own_gap_key(tr, index) ==
    Join(names(tr), <<":">>) \o <<"[">> \o ToDecimal(index) \o <<"]">> \o <<".">> \o S_gap_left

\* The sweep of onLeave taken with the node's own name alone instead of the
\* joined trace.
scope_prefix_of_name(tr, name) == name \o <<":">>

\* The prefix whose keys onLeave removes: trace.names().join(":") + ":"
scope_prefix(tr, name) == Join(names(tr), <<":">>) \o <<":">>

RECURSIVE style_overrides(_, _, _, _, _)
\* The loop over the style records of onEnter (main.rs 139-167): the layout
\* afterwards, the keys inserted, and whether the gap lookup unwrapped None.
style_overrides(styles, tr, children, lay, keys) ==
    IF styles = <<>> THEN [panic |-> FALSE, layout |-> lay, keys |-> keys]
    ELSE
    LET st == styles[1]
        display == find(st.rules, S_display)
    IN
    IF display # None /\ display[1] = S_flex
    THEN LET gap == find(st.rules, S_gap) IN
         IF gap = None THEN [panic |-> TRUE, layout |-> lay, keys |-> keys]
         ELSE LET new == {gap_key(tr, children[i + 1], i) : i \in 1..(Len(children) - 1)} IN
              style_overrides(Tail(styles), tr, children,
                              insert_all(lay, new, gap[1]), keys \cup new)
    ELSE style_overrides(Tail(styles), tr, children, lay, keys)

\* The first statement of onEnter (main.rs 134-170).
enter_style(tr, attrs, children, lay) ==
    Bind(find(attrs, S_style), LAMBDA style :
        IF style = None THEN [panic |-> FALSE, layout |-> lay, keys |-> {}]
        ELSE Bind(parse_css(style[1]), LAMBDA parsed :
                IF parsed.status # "ok" THEN [panic |-> TRUE, layout |-> lay, keys |-> {}]
                ELSE style_overrides(parsed.styles, tr, children, lay, {})))

Draw(op, t, x, y, color) == [op |-> op, text |-> t, x |-> x, y |-> y, color |-> color]
Outcome(pan, st, cv, keys) == [panic |-> pan, state |-> st, canvas |-> cv, keys |-> keys]

RECURSIVE title_text(_, _)
\* for child in children { title.push_str(&child.text_node.unwrap()); title.push_str(" ") }
\* (main.rs 176-180): Some(title), or None where unwrap panics
title_text(children, acc) ==
    IF children = <<>> THEN Some(acc)
    ELSE IF children[1].text_node = None THEN None
    ELSE title_text(Tail(children), acc \o children[1].text_node[1] \o <<" ">>)

\* The title branch of onEnter (main.rs 175-191).
enter_title(children, st, cv, keys) ==
    LET title == title_text(children, <<>>) IN
    IF title = None THEN Outcome(TRUE, st, cv, keys)
    ELSE IF title[1] = <<>> THEN Outcome(FALSE, st, cv, keys)
    ELSE Outcome(FALSE, st, Append(cv, Draw("title", title[1], LeftMargin, 5 + FontSize, S_black)), keys)

RECURSIVE enter_body(_, _, _, _)
\* The body branch of onEnter (main.rs 192-208): the loop over the attributes.
enter_body(attrs, st, cv, keys) ==
    IF attrs = <<>> THEN Outcome(FALSE, st, cv, keys)
    ELSE IF attrs[1][1] = S_bgcolor
    THEN IF ~set_color_hex_ok(attrs[1][2]) THEN Outcome(TRUE, st, cv, keys)
         ELSE enter_body(Tail(attrs), st,
                         Append(cv, Draw("rect", <<>>, 0, ContentTop, attrs[1][2])), keys)
    ELSE IF attrs[1][1] = S_text
    THEN enter_body(Tail(attrs), [st EXCEPT !.current_color = attrs[1][2]], cv, keys)
    ELSE enter_body(Tail(attrs), st, cv, keys)

\* The text part of the flow branch (main.rs 212-260), for text_node = Some(t).
enter_text(tr, t, st, cv, keys) ==
    LET is_anchor == IsSuffix(<<S_a>>, names(tr))
        pos == st.cursor_position
        rect == measure_str(t)
    IN
    IF t = <<>> THEN Outcome(FALSE, st, cv, keys)   \* TextBlob::from_str gives None
    ELSE IF ~is_anchor /\ ~set_color_hex_ok(st.current_color) THEN Outcome(TRUE, st, cv, keys)
    ELSE
    LET color == IF is_anchor THEN <<"#", "0", "0", "5", "5", "F", "F">> ELSE st.current_color
        drawn == Append(cv, Draw("text", t, pos[1], pos[2], color))
        href == IF is_anchor THEN find(tr[Len(tr)][2], S_href) ELSE None
    IN
    IF is_anchor /\ href = None THEN Outcome(TRUE, st, drawn, keys)
    ELSE
    LET links == IF is_anchor
                 THEN Append(st.hyper_links,
                             [rect |-> [left |-> pos[1], top |-> pos[2] - FontSize,
                                        right |-> pos[1] + rect.width,
                                        bottom |-> pos[2] + rect.height - FontSize],
                              path |-> href[1]])
                 ELSE st.hyper_links
    IN Outcome(FALSE,
               [st EXCEPT !.hyper_links = links,
                          !.cursor_position = <<pos[1] + rect.width, pos[2]>>],
               drawn, keys)

\* The end of the flow branch with br treated as any other element.
enter_advance_no_break(tr, name, index, text_node, st, cv, keys) ==
    LET pos == st.cursor_position IN
    Outcome(FALSE,
            [st EXCEPT !.cursor_position =
                <<pos[1] + (IF text_node # None THEN DefaultGap ELSE 0), pos[2]>>],
            cv, keys)

\* The end of the flow branch (main.rs 262-292): the line break of br, or the gap.
enter_advance(tr, name, index, text_node, st, cv, keys) ==
    LET is_text_node == text_node # None
        pos == st.cursor_position
        key == own_gap_key(tr, index)
    IN
    IF name = S_br
    THEN Outcome(FALSE, [st EXCEPT !.cursor_position = <<LeftMargin, pos[2] + LineHeight>>],
                 cv, keys)
    ELSE IF key \in DOMAIN st.layout
    THEN IF ~is_text_node
         THEN LET gap == parse_f32(trim_end_px(st.layout[key])) IN
              IF gap = None THEN Outcome(TRUE, st, cv, keys)
              ELSE Outcome(FALSE, [st EXCEPT !.cursor_position = <<pos[1] + gap[1], pos[2]>>],
                           cv, keys)
         ELSE Outcome(FALSE, [st EXCEPT !.cursor_position = <<pos[1] + DefaultGap, pos[2]>>],
                      cv, keys)
    ELSE Outcome(FALSE,
                 [st EXCEPT !.cursor_position =
                     <<pos[1] + (IF is_text_node THEN DefaultGap ELSE 0), pos[2]>>],
                 cv, keys)

\* onEnter with the flow branch taken whether or not the trace holds body.
onEnter_everywhere(tr, name, index, attrs, children, text_node, st, cv) ==
    Bind(enter_style(tr, attrs, children, st.layout), LAMBDA sty :
    Bind([st EXCEPT !.layout = sty.layout], LAMBDA st1 :
        IF sty.panic THEN Outcome(TRUE, st1, cv, sty.keys)
        ELSE IF IsSuffix(<<S_title>>, names(tr)) THEN enter_title(children, st1, cv, sty.keys)
        ELSE IF name = S_body THEN enter_body(attrs, st1, cv, sty.keys)
        ELSE Bind(IF text_node # None
                  THEN enter_text(tr, text_node[1], st1, cv, sty.keys)
                  ELSE Outcome(FALSE, st1, cv, sty.keys), LAMBDA txt :
                IF txt.panic THEN txt
                ELSE enter_advance(tr, name, index, text_node, txt.state, txt.canvas, txt.keys))))

\* The first closure handed to walk (main.rs 127-294).
onEnter(tr, name, index, attrs, children, text_node, st, cv) ==
    Bind(enter_style(tr, attrs, children, st.layout), LAMBDA sty :
    Bind([st EXCEPT !.layout = sty.layout], LAMBDA st1 :
        IF sty.panic THEN Outcome(TRUE, st1, cv, sty.keys)
        ELSE IF IsSuffix(<<S_title>>, names(tr)) THEN enter_title(children, st1, cv, sty.keys)
        ELSE IF name = S_body THEN enter_body(attrs, st1, cv, sty.keys)
        ELSE IF \E i \in 1..Len(tr) : tr[i][1] = S_body
        THEN Bind(IF text_node # None
                  THEN enter_text(tr, text_node[1], st1, cv, sty.keys)
                  ELSE Outcome(FALSE, st1, cv, sty.keys), LAMBDA txt :
                IF txt.panic THEN txt
                ELSE enter_advance(tr, name, index, text_node, txt.state, txt.canvas, txt.keys))
        ELSE Outcome(FALSE, st1, cv, sty.keys)))

\* onLeave breaking the line after every element, whatever its name.
onLeave_every_element(tr, name, st) ==
    LET st1 == IF name # S_textNode
               THEN [st EXCEPT !.cursor_position =
                                   <<LeftMargin, st.cursor_position[2] + LineHeight>>]
               ELSE st
        key_to_remove == {k \in DOMAIN st1.layout : IsPrefix(Join(names(tr), <<":">>) \o <<":">>, k)}
    IN [st1 EXCEPT !.layout = [k \in DOMAIN st1.layout \ key_to_remove |-> st1.layout[k]]]

\* The second closure handed to walk (main.rs 297-313).
onLeave(tr, name, st) ==
    LET st1 == IF name = S_div
               THEN [st EXCEPT !.cursor_position =
                                   <<LeftMargin, st.cursor_position[2] + LineHeight>>]
               ELSE st
        key_to_remove == {k \in DOMAIN st1.layout : IsPrefix(scope_prefix(tr, name), k)}
    IN [st1 EXCEPT !.layout = [k \in DOMAIN st1.layout \ key_to_remove |-> st1.layout[k]]]

(***************************************************************************)
(* The traversal: html.rs, HtmlElement::walk and walk_trace.  The          *)
(* recursion is a stack of calls; each call is at "enter" (lines 74-87     *)
(* not yet run) or in its loop over the children (lines 89-91), and        *)
(* returns through lines 93-95.                                            *)
(***************************************************************************)
Frame(path, node, index, at_call) ==
    [path |-> path, node |-> node, index |-> index, pc |-> "enter", k |-> 0,
     prev |-> <<>>, at_call |-> at_call]

\* The trace with every node pushed, a text leaf too.
push_trace_always(tr, node) == Append(tr, <<node.name, node.attributes>>)

\* if self.name != "textNode" { trace.0.push((name, attributes)) }
push_trace(tr, node) ==
    IF node.name # S_textNode THEN Append(tr, <<node.name, node.attributes>>) ELSE tr

\* The children taken last to first.
enumerate_reversed(children) ==
    [j \in 1..Len(children) |-> <<Len(children) - j, children[Len(children) - j + 1]>>]

\* self.children.iter().enumerate()
enumerate(children) == [j \in 1..Len(children) |-> <<j - 1, children[j]>>]

\* The trace restored to the caller's value with the node itself left on it.
restore_keeping_self(prev, tr) == tr

\* *trace = prev
restore(prev, tr) == prev

\* A callback invoked: on which node, with which trace, the trace its
\* walk_trace call received (before) and left (after), and the renderer state
\* the callback received (pre) and left (post), what it drew, and whether it
\* panicked.
Event(kind, fr, tr, before, after, pre, post, drawn, pan) ==
    [kind |-> kind, path |-> fr.path, name |-> fr.node.name, index |-> fr.index,
     trace |-> tr, before |-> before, after |-> after, pre |-> pre, post |-> post,
     drawn |-> drawn, panic |-> pan]

Top == stack[Len(stack)]

\* walk_trace, lines 74-87: save the trace, push the node, call f.
WalkEnter ==
    /\ walkpc = "walking" /\ stack # <<>> /\ Top.pc = "enter"
    /\ \E tr \in {push_trace(trace, Top.node)} :
       \E out \in {onEnter(tr, Top.node.name, Top.index, Top.node.attributes,
                            Top.node.children, Top.node.text_node, state, canvas)} :
          /\ trace' = tr
          /\ state' = out.state
          /\ canvas' = out.canvas
          /\ events' = Append(events, Event("enter", Top, tr, Top.at_call, tr, state, out.state,
                                           SubSeq(out.canvas, Len(canvas) + 1, Len(out.canvas)),
                                           out.panic))
          /\ inserted' = [key \in DOMAIN inserted \cup out.keys |->
                             IF key \in out.keys THEN Top.path ELSE inserted[key]]
          /\ walkpc' = IF out.panic THEN "panic" ELSE "walking"
          /\ stack' = [stack EXCEPT ![Len(stack)] = [@ EXCEPT !.pc = "children", !.prev = trace]]
    /\ UNCHANGED <<html, lexVars, parseVars, cssVars, loopVars, tailVars, appVars>>

\* walk_trace, lines 89-91: call walk_trace on the next child.
WalkChild ==
    /\ walkpc = "walking" /\ stack # <<>> /\ Top.pc = "children"
    /\ Top.k < Len(enumerate(Top.node.children))
    /\ LET pair == enumerate(Top.node.children)[Top.k + 1] IN
       stack' = Append([stack EXCEPT ![Len(stack)] = [@ EXCEPT !.k = @ + 1]],
                       Frame(Append(Top.path, pair[1]), pair[2], pair[1], trace))
    /\ UNCHANGED <<html, trace, state, canvas, events, inserted, walkpc, lexVars, parseVars, cssVars, loopVars, tailVars, appVars>>

\* walk_trace, lines 93-95: call g, restore the trace, return.
WalkLeave ==
    /\ walkpc = "walking" /\ stack # <<>> /\ Top.pc = "children"
    /\ Top.k >= Len(enumerate(Top.node.children))
    /\ state' = onLeave(trace, Top.node.name, state)
    /\ trace' = restore(Top.prev, trace)
    /\ events' = Append(events, Event("leave", Top, trace, Top.at_call, trace', state, state',
                                     <<>>, FALSE))
    /\ stack' = SubSeq(stack, 1, Len(stack) - 1)
    /\ walkpc' = IF Len(stack) = 1 THEN "done" ELSE "walking"
    /\ UNCHANGED <<html, canvas, inserted, lexVars, parseVars, cssVars, loopVars, tailVars, appVars>>

WalkIdle ==
    /\ html = NoElement /\ stack = <<>> /\ trace = <<>> /\ state = InitialRendererState
    /\ events = <<>> /\ inserted = <<>> /\ canvas = <<>> /\ walkpc = "idle"

(***************************************************************************)
(* Trees to walk: what parse_html returns for a document of at most        *)
(* MaxNodes nodes: a text leaf alone, or a root (body, or a div with a     *)
(* flex style) over text leaves and divs with and without a flex style.    *)
(***************************************************************************)
MaxNodes == 5

S_flexgap == <<"d", "i", "s", "p", "l", "a", "y", ":", "f", "l", "e", "x", ";", "g", "a", "p", ":", "4", "p", "x", ";">>
TextLeaf(w) == HtmlElement(S_textNode, <<>>, <<>>, Some(w))
FlexDiv == <<S_div, <<<<S_style, S_flexgap>>>>>>
RootLabels == {<<S_body, <<>>>>, FlexDiv}
TreeLabels == {<<S_div, <<>>>>, FlexDiv}

RECURSIVE TreesOfSize(_), Forests(_)
\* The trees of exactly n nodes below a root.
TreesOfSize(n) ==
    IF n = 1
    THEN {TextLeaf(<<"x">>)} \cup {HtmlElement(l[1], l[2], <<>>, None) : l \in TreeLabels}
    ELSE UNION {{HtmlElement(l[1], l[2], kids, None) : l \in TreeLabels}
                : kids \in Forests(n - 1)}
Forests(m) ==
    IF m = 0 THEN {<<>>}
    ELSE UNION {{<<t>> \o f : t \in TreesOfSize(j), f \in Forests(m - j)} : j \in 1..m}

Trees(n) ==
    {TextLeaf(<<"x">>)}
        \cup UNION {{HtmlElement(l[1], l[2], kids, None) : l \in RootLabels}
                    : kids \in UNION {Forests(j) : j \in 0..(n - 1)}}

(***************************************************************************)
(* Trees to lay out: at most MaxFlowNodes nodes, the root a body with or   *)
(* without a flex style or an element outside any body, over text leaves,  *)
(* line breaks, paragraphs and divs with a flex style.                     *)
(***************************************************************************)
MaxFlowNodes == 4

FlexBody == <<S_body, <<<<S_style, S_flexgap>>>>>>
FlowRoots == {<<S_body, <<>>>>, FlexBody, <<S_p, <<>>>>}
FlowLabels == {<<S_p, <<>>>>, FlexDiv}
FlowLeaves == {TextLeaf(<<"x">>), HtmlElement(S_br, <<>>, <<>>, None)}

RECURSIVE FlowTreesOfSize(_), FlowForests(_)
FlowTreesOfSize(n) ==
    IF n = 1
    THEN FlowLeaves \cup {HtmlElement(l[1], l[2], <<>>, None) : l \in FlowLabels}
    ELSE UNION {{HtmlElement(l[1], l[2], kids, None) : l \in FlowLabels}
                : kids \in FlowForests(n - 1)}
FlowForests(m) ==
    IF m = 0 THEN {<<>>}
    ELSE UNION {{<<t>> \o f : t \in FlowTreesOfSize(j), f \in FlowForests(m - j)} : j \in 1..m}

FlowTrees(n) ==
    UNION {{HtmlElement(l[1], l[2], kids, None) : l \in FlowRoots}
           : kids \in UNION {FlowForests(j) : j \in 0..(n - 1)}}

(***************************************************************************)
(* Pages: a root (a body, with or without repeated attributes, or an       *)
(* element outside any body) over at most MaxItems items, each a small     *)
(* subtree: text, links, titles, styled divs, a line break.                *)
(***************************************************************************)
MaxItems == 2

S_u == <<"u">>
S_w == <<"w">>
S_111 == <<"#", "1", "1", "1">>
S_222 == <<"#", "2", "2", "2">>
S_flexonly == <<"d", "i", "s", "p", "l", "a", "y", ":", "f", "l", "e", "x", ";">>
S_colorred == <<"c", "o", "l", "o", "r", ":", "r", "e", "d", ";">>
S_flexback == <<"d", "i", "s", "p", "l", "a", "y", ":", "f", "l", "e", "x", ";",
                "g", "a", "p", ":", "-", "1", "8", "p", "x", ";">>

Elem(n, as, kids) == HtmlElement(n, as, kids, None)

PageItems ==
    {TextLeaf(<<"x">>),
     Elem(S_br, <<>>, <<>>),
     Elem(S_a, <<<<S_href, S_u>>>>, <<TextLeaf(<<"x">>), TextLeaf(<<"y", "z">>)>>),
     Elem(S_a, <<<<S_href, S_w>>, <<S_href, S_u>>>>, <<TextLeaf(<<"y">>)>>),
     Elem(S_a, <<>>, <<TextLeaf(<<"x">>)>>),
     Elem(S_a, <<<<S_href, S_u>>>>, <<Elem(S_p, <<>>, <<TextLeaf(<<"x">>)>>)>>),
     Elem(S_title, <<>>, <<TextLeaf(<<"x">>), TextLeaf(<<"y">>)>>),
     Elem(S_title, <<>>, <<Elem(S_p, <<>>, <<TextLeaf(<<"x">>)>>)>>),
     Elem(S_div, <<<<S_style, S_flexonly>>>>, <<Elem(S_p, <<>>, <<>>), Elem(S_p, <<>>, <<>>)>>),
     Elem(S_div, <<<<S_style, S_flexgap>>, <<S_style, S_colorred>>>>,
          <<Elem(S_p, <<>>, <<>>), Elem(S_p, <<>>, <<>>)>>),
     Elem(S_div, <<<<S_style, S_colorred>>, <<S_style, S_flexgap>>>>,
          <<Elem(S_p, <<>>, <<>>), Elem(S_p, <<>>, <<>>)>>),
     Elem(S_div, <<<<S_style, S_flexback>>>>,
          <<Elem(S_a, <<<<S_href, S_u>>>>, <<TextLeaf(<<"x", "x">>)>>),
            Elem(S_a, <<<<S_href, S_w>>>>, <<TextLeaf(<<"y">>)>>)>>)}

PageRoots ==
    {<<S_body, <<>>>>,
     <<S_body, <<<<S_text, S_111>>, <<S_text, S_222>>>>>>,
     <<S_body, <<<<S_bgcolor, S_111>>, <<S_bgcolor, S_222>>>>>>,
     <<S_p, <<>>>>,
     <<S_a, <<<<S_href, S_u>>>>>>}

Pages(n) ==
    UNION {{Elem(l[1], l[2], kids) : l \in PageRoots, kids \in [1..k -> PageItems]}
           : k \in 0..n}

(***************************************************************************)
(* Tokens after a document: every sequence of at most MaxTail tokens, and  *)
(* a closing tag; after the tokens of the single tags and of the documents *)
(* of at most MaxBaseNodes nodes.                                          *)
(***************************************************************************)
MaxTail == 2
MaxBaseNodes == 2

TailTokens(n) ==
    UNION {[1..k -> {LAngle, Slash, RAngle, Text(S_a)}] : k \in 0..n}
        \cup {<<LAngle, Slash, Text(S_a), RAngle>>}

BaseTokens(n) ==
    {tokenize_html(Render(d)).tokens : d \in StructDocs(n) \cup TagDocs \cup ReservedDocs}

(***************************************************************************)
(* The application: main.rs, App and window_event.  The handlers run one   *)
(* at a time on the event loop; the fetch tasks run beside them.  A tree   *)
(* is known by the path it was fetched for and the link targets its walk   *)
(* collects.                                                               *)
(***************************************************************************)
MaxRedraws == 5
MaxTasks == 3
MaxClicks == 2

Tree(p, links) == [path |-> p, links |-> links]

\* What the server holds: Some(tree) for a path whose response parses, None
\* where fetch(..).unwrap() or parse_html(..).unwrap() panics in the task.
Served(p) ==
    CASE p = "" -> Some(Tree("", <<"a", "c">>))
      [] p = "a" -> Some(Tree("a", <<"">>))
      [] OTHER -> None

\* The Arc a click leaves App.html pointing to, were the tree cleared in place.
same_slot(cur, made) == cur

\* self.html = Arc::new(Mutex::new(None)): an Arc no task holds
fresh_slot(cur, made) == made + 1

Task(id, slot, p, pc, epoch, stored) ==
    [id |-> id, slot |-> slot, path |-> p, pc |-> pc, epoch |-> epoch, stored |-> stored]

(***************************************************************************)
(* Written style sheets.  A sheet is written from the records it stands    *)
(* for: blocks `selector { declarations }` and, last, a bare declaration   *)
(* list; with a blank between the tokens or (tight) without.  A raw sheet  *)
(* is any short string.                                                    *)
(***************************************************************************)
\* The most declarations of a written declaration list.
MaxDecls == 3

S_color == <<"c", "o", "l", "o", "r">>
S_red == <<"r", "e", "d">>
S_4px == <<"4", "p", "x">>
CssDecls == {<<S_color, S_red>>, <<S_display, S_flex>>, <<S_gap, S_4px>>}

DeclLists(n) == UNION {[1..k -> CssDecls] : k \in 0..n}

Sheet(records, tight) ==
    [form |-> "sheet", records |-> records, tight |-> tight, text |-> <<>>]
RawSheet(text) ==
    [form |-> "raw", records |-> <<>>, tight |-> FALSE, text |-> text]

Sheets(n) ==
    {Sheet(<<>>, FALSE)}
        \cup {Sheet(<<Style(None, rs)>>, tight) :
                 rs \in DeclLists(n) \ {<<>>}, tight \in BOOLEAN}
        \cup {Sheet(<<Style(Some(S_a), rs)>>, tight) :
                 rs \in DeclLists(n - 1), tight \in BOOLEAN}
        \cup {Sheet(<<Style(Some(S_a), rs), Style(None, bare)>>, tight) :
                 rs \in DeclLists(1), bare \in DeclLists(1) \ {<<>>}, tight \in BOOLEAN}
        \cup {Sheet(<<Style(Some(S_a), rs), Style(Some(S_div), more)>>, tight) :
                 rs \in DeclLists(1), more \in DeclLists(1), tight \in BOOLEAN}
        \cup {Sheet(<<Style(Some(S_a), rs), Style(Some(S_div), more), Style(Some(S_a), <<>>)>>,
                    tight) :
                 rs \in DeclLists(2), more \in DeclLists(1), tight \in BOOLEAN}

Blank(tight) == IF tight THEN <<>> ELSE <<" ">>

RenderRules(rs, tight) ==
    Join([i \in 1..Len(rs) |-> rs[i][1] \o <<":">> \o Blank(tight) \o rs[i][2] \o <<";">>],
         Blank(tight))

RenderRecord(r, tight) ==
    IF r.selector = None THEN RenderRules(r.rules, tight)
    ELSE r.selector[1] \o Blank(tight) \o <<"{">> \o Blank(tight)
             \o RenderRules(r.rules, tight)
             \o (IF r.rules = <<>> THEN <<>> ELSE Blank(tight)) \o <<"}">>

\* The text of a written sheet.
RenderSheet(sh) ==
    IF sh.form = "raw" THEN sh.text
    ELSE Join([i \in 1..Len(sh.records) |-> RenderRecord(sh.records[i], sh.tight)],
              Blank(sh.tight))

CssIdle == sheet = Sheet(<<>>, FALSE) /\ css = <<>> /\ cssresult = CssNotRun

\* No iteration run yet.
NoIter == [loop |-> "none", from |-> 0, status |-> "ok", to |-> 0]

LoopIdle == parser = "none" /\ ptokens = <<>> /\ ppos = 0 /\ lastiter = NoIter

TailIdle == base = <<>> /\ tail = <<>> /\ whole = NotRun /\ extended = NotRun

\* App::default(): the empty path, no tree, no links; nothing spawned yet.
\* MouseInput outside its loop: no links cloned
NoPending == [links |-> <<>>, next |-> 1]

AppIdle ==
    /\ cur_path = "" /\ html_slot = 1 /\ slots = <<None>> /\ tasks = {}
    /\ app_links = <<>> /\ handler = "idle" /\ walked = <<>> /\ clicks = 0
    /\ held = {} /\ pending = NoPending /\ mouse = <<0, 0>> /\ requested = TRUE

(***************************************************************************)
(* Specifications.                                                         *)
(***************************************************************************)
\* A lexer run: tokenize_html or tokenize_css on one input, an iteration of
\* the outer while loop at a time.
InitLex ==
    /\ lexer \in {"html", "css"}
    /\ chars \in (IF lexer = "html" THEN HtmlLexInputs(MaxLexLen) ELSE CssLexInputs(MaxLexLen))
    /\ position = 0 /\ tokens = <<>> /\ lexpc = "loop"
    /\ ParseIdle /\ WalkIdle /\ CssIdle /\ LoopIdle /\ TailIdle /\ AppIdle

LexStep(iter) ==
    /\ position' = iter.position
    /\ tokens' = iter.tokens
    /\ lexpc' = IF iter.panic THEN "panic" ELSE "loop"
    /\ UNCHANGED <<lexer, chars, parseVars, walkVars, cssVars, loopVars, tailVars, appVars>>

TokenizeHtmlStep ==
    /\ lexer = "html" /\ lexpc = "loop" /\ position < Len(chars)
    /\ \E iter \in {tokenize_html_iter(chars, position, tokens)} : LexStep(iter)

TokenizeCssStep ==
    /\ lexer = "css" /\ lexpc = "loop" /\ position < Len(chars)
    /\ \E iter \in {tokenize_css_iter(chars, position, tokens)} : LexStep(iter)

\* The while loop ends and the tokens are returned.
TokenizeReturn ==
    /\ lexpc = "loop" /\ position >= Len(chars)
    /\ lexpc' = "done"
    /\ UNCHANGED <<lexer, chars, position, tokens, parseVars, walkVars, cssVars, loopVars, tailVars, appVars>>

NextLex == TokenizeHtmlStep \/ TokenizeCssStep \/ TokenizeReturn
SpecLex == InitLex /\ [][NextLex]_vars

\* A parse_html call on a written document, or on a well written document cut
\* short after any of its characters.
InitParse ==
    /\ doc \in Docs(MaxDocNodes, MaxWords)
    /\ input \in {Render(doc)}
                   \cup (IF WellWritten(doc, FALSE)
                         THEN {SubSeq(Render(doc), 1, n) : n \in 0..Len(Render(doc))}
                         ELSE {})
    /\ result = NotRun
    /\ LexIdle /\ WalkIdle /\ CssIdle /\ LoopIdle /\ TailIdle /\ AppIdle

ParseHtml ==
    /\ result = NotRun
    /\ \E out \in {parse_html(input)} : result' = out
    /\ UNCHANGED <<doc, input, lexVars, walkVars, cssVars, loopVars, tailVars, appVars>>

NextParse == ParseHtml
SpecParse == InitParse /\ [][NextParse]_vars

\* One walk of a tree, as the redraw handler starts it (main.rs 117-125).
InitWalk ==
    /\ html \in Trees(MaxNodes)
    /\ stack = <<Frame(<<>>, html, 0, <<>>)>>
    /\ trace = <<>>
    /\ state = InitialRendererState
    /\ events = <<>> /\ inserted = <<>> /\ canvas = <<>>
    /\ walkpc = "walking"
    /\ LexIdle /\ ParseIdle /\ CssIdle /\ LoopIdle /\ TailIdle /\ AppIdle

\* A parse_css call on a written sheet, whole or cut short after any of its
\* characters, or on a raw sheet.
InitCss ==
    /\ sheet \in Sheets(MaxDecls) \cup {RawSheet(t) : t \in CssLexInputs(MaxLexLen)}
    /\ css \in {SubSeq(RenderSheet(sheet), 1, n) : n \in 0..Len(RenderSheet(sheet))}
    /\ cssresult = CssNotRun
    /\ LexIdle /\ ParseIdle /\ WalkIdle /\ LoopIdle /\ TailIdle /\ AppIdle

ParseCss ==
    /\ cssresult = CssNotRun
    /\ \E out \in {parse_css(css)} : cssresult' = out
    /\ UNCHANGED <<sheet, css, lexVars, parseVars, walkVars, loopVars, tailVars, appVars>>

NextCss == ParseCss
SpecCss == InitCss /\ [][NextCss]_vars

\* One parser, somewhere in its tokens, running iterations of its loops until
\* one of them ends the parse.
InitLoop ==
    /\ parser \in {"html", "css"}
    /\ ptokens \in
          (IF parser = "html"
           THEN {tokenize_html(s).tokens : s \in HtmlLexInputs(MaxLexLen)}
                   \cup {tokenize_html(Render(d)).tokens : d \in TagDocs \cup StructDocs(MaxDocNodes)}
           ELSE {tokenize_css(s).tokens : s \in CssLexInputs(MaxLexLen)}
                   \cup {tokenize_css(RenderSheet(sh)).tokens : sh \in Sheets(MaxDecls)})
    /\ ppos \in 0..Len(ptokens)
    /\ lastiter = NoIter
    /\ LexIdle /\ ParseIdle /\ WalkIdle /\ CssIdle /\ TailIdle /\ AppIdle

ParseRunning == lastiter.status = "ok"

LoopStep(loop, out) ==
    /\ lastiter' = [loop |-> loop, from |-> ppos, status |-> out.status, to |-> out.position]
    /\ ppos' = IF out.status = "ok" THEN out.position ELSE ppos
    /\ UNCHANGED <<parser, ptokens, lexVars, parseVars, walkVars, cssVars, tailVars, appVars>>

\* HtmlParser::elements, one iteration of its while loop.
ElementsIter ==
    /\ parser = "html" /\ ParseRunning
    /\ ppos < Len(ptokens) /\ ~starts_with(ptokens, ppos, <<LAngle, Slash>>)
    /\ \E out \in {element(ptokens, ppos)} : LoopStep("elements", out)

\* HtmlParser::attributes, one iteration of its while loop.
AttributesIter ==
    /\ parser = "html" /\ ParseRunning /\ ppos <= Len(ptokens)
    /\ peek(ptokens, ppos) # Some(RAngle) /\ peek(ptokens, ppos) # Some(Slash)
    /\ \E out \in {attribute(ptokens, ppos)} : LoopStep("attributes", out)

\* HtmlParser::element, one iteration of the scan for the end of a script.
ScriptScanIter ==
    /\ parser = "html" /\ ParseRunning
    /\ ppos > Len(ptokens) \/ ~starts_with(ptokens, ppos, ScriptClose)
    /\ \E out \in {script_scan_step(ptokens, ppos)} : LoopStep("script", out)

\* CssParser::rules, one iteration of its while loop.
RulesIter ==
    /\ parser = "css" /\ ParseRunning
    /\ ppos < Len(ptokens) /\ ptokens[ppos + 1].kind = "Ident"
    /\ \E out \in {css_rule(ptokens, ppos)} : LoopStep("rules", out)

\* CssParser::styles, one iteration of its while loop.
StylesIter ==
    /\ parser = "css" /\ ParseRunning
    /\ ppos < Len(ptokens)
    /\ \E out \in {css_style(ptokens, ppos)} : LoopStep("styles", out)

NextLoop == ElementsIter \/ AttributesIter \/ ScriptScanIter \/ RulesIter \/ StylesIter
SpecLoop == InitLoop /\ [][NextLoop]_vars

\* One walk of a tree to lay out, as the redraw handler starts it.
InitFlow ==
    /\ html \in FlowTrees(MaxFlowNodes)
    /\ stack = <<Frame(<<>>, html, 0, <<>>)>>
    /\ trace = <<>>
    /\ state = InitialRendererState
    /\ events = <<>> /\ inserted = <<>> /\ canvas = <<>>
    /\ walkpc = "walking"
    /\ LexIdle /\ ParseIdle /\ CssIdle /\ LoopIdle /\ TailIdle /\ AppIdle

\* One walk of a page, as the redraw handler starts it.
InitPage ==
    /\ html \in Pages(MaxItems)
    /\ stack = <<Frame(<<>>, html, 0, <<>>)>>
    /\ trace = <<>>
    /\ state = InitialRendererState
    /\ events = <<>> /\ inserted = <<>> /\ canvas = <<>>
    /\ walkpc = "walking"
    /\ LexIdle /\ ParseIdle /\ CssIdle /\ LoopIdle /\ TailIdle /\ AppIdle

\* Two parse_html calls, from the tokens on: on the tokens of a written
\* document, and on the same tokens followed by more.
InitTail ==
    /\ base \in BaseTokens(MaxBaseNodes)
    /\ tail \in TailTokens(MaxTail)
    /\ whole = NotRun /\ extended = NotRun
    /\ LexIdle /\ ParseIdle /\ WalkIdle /\ CssIdle /\ LoopIdle /\ AppIdle

ParseBase ==
    /\ whole = NotRun
    /\ \E out \in {parse_tokens(base)} : whole' = out
    /\ UNCHANGED <<base, tail, extended, lexVars, parseVars, walkVars, cssVars, loopVars, appVars>>

ParseExtended ==
    /\ whole # NotRun /\ extended = NotRun
    /\ \E out \in {parse_tokens(base \o tail)} : extended' = out
    /\ UNCHANGED <<base, tail, whole, lexVars, parseVars, walkVars, cssVars, loopVars, appVars>>

NextTail == ParseBase \/ ParseExtended
SpecTail == InitTail /\ [][NextTail]_vars

\* RedrawRequested, main.rs 117-125 and 318: walk the tree App.html holds, if
\* any, and keep the links it collected.
RedrawWalk ==
    /\ handler = "idle"
    /\ Len(walked) < MaxRedraws
    /\ slots[html_slot] = None => Cardinality(tasks) < MaxTasks
    /\ walked' = Append(walked, [path |-> cur_path, slot |-> html_slot,
                                 tree |-> slots[html_slot]])
    /\ app_links' = IF slots[html_slot] # None THEN slots[html_slot][1].links ELSE app_links
    /\ handler' = "spawn"
    /\ UNCHANGED <<cur_path, html_slot, slots, tasks, clicks,
                   lexVars, parseVars, walkVars, cssVars, loopVars, tailVars, lockVars>>

\* RedrawRequested, main.rs 333-345: spawn a fetch of the path if App.html holds
\* no tree; the task keeps a clone of the Arc and of the path.
RedrawSpawn ==
    /\ handler = "spawn"
    /\ tasks' = IF slots[html_slot] = None
                THEN tasks \cup {Task(Cardinality(tasks) + 1, html_slot, cur_path, "fetch",
                                      clicks, -1)}
                ELSE tasks
    /\ handler' = "idle"
    /\ UNCHANGED <<cur_path, html_slot, slots, app_links, walked, clicks,
                   lexVars, parseVars, walkVars, cssVars, loopVars, tailVars, lockVars>>

\* A task, main.rs 339: the response of fetch(path) arrives.
TaskFetch ==
    \E t \in tasks :
        /\ t.pc = "fetch"
        /\ tasks' = (tasks \ {t}) \cup {[t EXCEPT !.pc = "store"]}
        /\ UNCHANGED <<cur_path, html_slot, slots, app_links, handler, walked, clicks,
                       lexVars, parseVars, walkVars, cssVars, loopVars, tailVars, lockVars>>

\* A task, main.rs 339-343: parse the response and store the tree in the Arc
\* the task holds (or panic on an unwrap and store nothing).
TaskStore ==
    \E t \in tasks :
        /\ t.pc = "store"
        /\ slots' = IF Served(t.path) # None
                    THEN [slots EXCEPT ![t.slot] = Served(t.path)]
                    ELSE slots
        /\ tasks' = (tasks \ {t})
                       \cup {[t EXCEPT !.pc = "done",
                                       !.stored = IF Served(t.path) # None THEN clicks ELSE -1]}
        /\ UNCHANGED <<cur_path, html_slot, app_links, handler, walked, clicks,
                       lexVars, parseVars, walkVars, cssVars, loopVars, tailVars, lockVars>>

\* MouseInput, main.rs 351-368, with the cursor inside the boxes of the links
\* hit (at least one): for each in order, the path becomes its target and
\* App.html a new Arc holding None; the links are cleared.
MouseInput ==
    /\ handler = "idle" /\ clicks < MaxClicks
    /\ \E hit \in (SUBSET (1..Len(app_links))) \ {{}} :
          LET last == CHOOSE i \in hit : \A j \in hit : j <= i IN
          \E s \in {fresh_slot(html_slot, Len(slots))} :
             /\ cur_path' = app_links[last]
             /\ html_slot' = s
             /\ slots' = [Append(slots, None) EXCEPT ![s] = None]
    /\ app_links' = <<>>
    /\ clicks' = clicks + 1
    /\ UNCHANGED <<tasks, handler, walked,
                   lexVars, parseVars, walkVars, cssVars, loopVars, tailVars, lockVars>>

InitApp == AppIdle /\ LexIdle /\ ParseIdle /\ WalkIdle /\ CssIdle /\ LoopIdle /\ TailIdle

NextApp == RedrawWalk \/ RedrawSpawn \/ TaskFetch \/ TaskStore \/ MouseInput
SpecApp == InitApp /\ [][NextApp]_vars

NextWalk == WalkEnter \/ WalkChild \/ WalkLeave
SpecWalk == InitWalk /\ [][NextWalk]_vars
SpecFlow == InitFlow /\ [][NextWalk]_vars
SpecPage == InitPage /\ [][NextWalk]_vars

(***************************************************************************)
(* Properties of the traversal, checked under SpecWalk.  A node is named   *)
(* by its path: the child indices from the root down to it.                *)
(***************************************************************************)
RECURSIVE NodeAt(_, _)
NodeAt(node, path) ==
    IF path = <<>> THEN node ELSE NodeAt(node.children[path[1] + 1], Tail(path))

IsTextPair(pair) == pair[1] = S_textNode
IsElementPair(pair) == ~IsTextPair(pair)

\* The (name, attributes) of the nodes strictly above the node at path, from the
\* root down to its parent, those named textNode left out.
NonTextAncestors(path) ==
    SelectSeq([d \in 1..Len(path) |->
                  <<NodeAt(html, SubSeq(path, 1, d - 1)).name,
                    NodeAt(html, SubSeq(path, 1, d - 1)).attributes>>],
              IsElementPair)

\* The node's own (name, attributes), unless it is a textNode.
OwnPair(path) ==
    IF NodeAt(html, path).name # S_textNode
    THEN <<<<NodeAt(html, path).name, NodeAt(html, path).attributes>>>>
    ELSE <<>>

RECURSIVE Tour(_, _)
\* The callbacks a pre-/post-order visit of node makes: its enter, the tours of
\* its children in index order, its leave.
Tour(node, path) ==
    <<<<"enter", path>>>>
        \o Concat([j \in 1..Len(node.children) |->
                      Tour(node.children[j], Append(path, j - 1))])
        \o <<<<"leave", path>>>>

\* The callbacks invoked so far: which closure, on which node.
Calls == [i \in 1..Len(events) |-> <<events[i].kind, events[i].path>>]

\* C1: at every moment of a walk the callbacks invoked so far are the first
\* callbacks of the pre-/post-order tour of the tree, and when walk returns they
\* are the whole tour: one onEnter and one onLeave per node, onEnter in
\* document order, onLeave in post-order, children by index, a node's onEnter
\* before and its onLeave after every callback of its descendants.
C1_WalkOrder ==
    /\ IsPrefix(Calls, Tour(html, <<>>))
    /\ walkpc = "done" => Calls = Tour(html, <<>>)

\* A finished walk of a tree whose root has two children, the first with
\* children of its own.
C1_Witness ==
    /\ walkpc = "done"
    /\ Len(html.children) >= 2
    /\ html.children[1].children # <<>>
    /\ Len(events) >= 8

\* C2, as the claim states it: the trace handed to a node's onEnter is the
\* (name, attributes) of its non-textNode ancestors from the root to its parent,
\* without the node itself.
C2_TraceIsAncestors ==
    \A i \in 1..Len(events) :
        events[i].kind = "enter" => events[i].trace = NonTextAncestors(events[i].path)

\* C2, as the code has it: the trace handed to a node's onEnter is the
\* (name, attributes) of its non-textNode ancestors from the root to its parent,
\* followed by the node's own pair unless the node is a textNode.
C2_TraceEndsWithNode ==
    \A i \in 1..Len(events) :
        events[i].kind = "enter" =>
            events[i].trace = NonTextAncestors(events[i].path) \o OwnPair(events[i].path)

\* An element two levels below the root and a text leaf have both been entered,
\* below a root that carries an attribute.
C2_Witness ==
    /\ html.attributes # <<>>
    /\ \E i \in 1..Len(events) :
          /\ events[i].kind = "enter" /\ events[i].name # S_textNode
          /\ Len(events[i].path) >= 2
    /\ \E i \in 1..Len(events) :
          /\ events[i].kind = "enter" /\ events[i].name = S_textNode
          /\ Len(events[i].path) >= 1

\* C3: every entry of the override map was inserted by the onEnter of a node
\* that has been entered and not yet left.  So the entries made while a flex
\* node's subtree is visited are gone once that node's onLeave has run, and the
\* map holds none of them when a later sibling, or any node outside that
\* subtree, is entered.
C3_OverridesScoped ==
    \A key \in DOMAIN state.layout :
        \E d \in 1..Len(stack) :
            stack[d].pc = "children" /\ stack[d].path = inserted[key]

\* A later sibling of a flex node is about to be entered; the flex node inserted
\* an entry that none of its children (elements all) swept, and has been left.
C3_Witness ==
    /\ stack # <<>>
    /\ Top.pc = "enter"
    /\ \E key \in DOMAIN inserted :
          /\ inserted[key] # <<>>
          /\ Top.path = SubSeq(inserted[key], 1, Len(inserted[key]) - 1)
                           \o <<inserted[key][Len(inserted[key])] + 1>>
          /\ \A j \in 1..Len(NodeAt(html, inserted[key]).children) :
                NodeAt(html, inserted[key]).children[j].name # S_textNode
          /\ key \notin DOMAIN state.layout

\* walk_trace hands the trace back as it received it.
TraceRestored ==
    /\ \A i \in 1..Len(events) :
          events[i].kind = "leave" => events[i].after = events[i].before
    /\ walkpc = "done" => trace = <<>>

\* C4, as the claim states it: walk_trace leaves the trace as it found it, and
\* at every callback the length of the trace is the number of the node's
\* non-textNode ancestors.
C4_TraceLengthIsDepth ==
    /\ TraceRestored
    /\ \A i \in 1..Len(events) :
          Len(events[i].trace) = Len(NonTextAncestors(events[i].path))

\* C4, as the code has it: walk_trace leaves the trace as it found it, and at
\* every callback the length of the trace is the number of non-textNode nodes
\* on the path from the root to the node, the node itself counted.
C4_TraceLengthCountsNode ==
    /\ TraceRestored
    /\ \A i \in 1..Len(events) :
          Len(events[i].trace)
              = Len(NonTextAncestors(events[i].path)) + Len(OwnPair(events[i].path))

\* walk_trace has returned from an element below the root that has children,
\* and from a text leaf.
C4_Witness ==
    /\ \E i \in 1..Len(events) :
          /\ events[i].kind = "leave" /\ events[i].name # S_textNode
          /\ events[i].path # <<>>
          /\ NodeAt(html, events[i].path).children # <<>>
    /\ \E i \in 1..Len(events) :
          events[i].kind = "leave" /\ events[i].name = S_textNode

(***************************************************************************)
(* Properties of parse_html, checked under SpecParse.                      *)
(***************************************************************************)
RECURSIVE Mismatched(_)
\* Some element of d (not meta, not script, not script content) is closed under
\* another name.
Mismatched(d) ==
    /\ d.form = "elem"
    /\ d.name \notin {S_meta, S_script}
    /\ \/ d.close # d.name
       \/ \E i \in 1..Len(d.children) : Mismatched(d.children[i])

RECURSIVE HasMetaOrScript(_)
HasMetaOrScript(d) ==
    \/ d.form # "text" /\ d.name \in {S_meta, S_script}
    \/ \E i \in 1..Len(d.children) : HasMetaOrScript(d.children[i])

RECURSIVE Expected(_)
\* The tree a well written document stands for.
Expected(d) ==
    IF d.form = "text" THEN HtmlElement(S_textNode, <<>>, <<>>, Some(d.name))
    ELSE IF d.form \in {"self", "void"} \/ d.name = S_script
    THEN HtmlElement(d.name, d.attributes, <<>>, None)
    ELSE HtmlElement(d.name, d.attributes,
                     [i \in 1..Len(d.children) |-> Expected(d.children[i])], None)

\* parse_html has run on the whole document.
ParsedWhole == result # NotRun /\ input = Render(doc)

\* parse_html has run on a document cut short: a proper prefix of a well written
\* document (the empty input, when the document is a single word).
ParsedTruncated ==
    /\ result # NotRun
    /\ WellWritten(doc, FALSE)
    /\ Len(input) < Len(Render(doc))
    /\ doc.form = "text" => input = <<>>

C6_TruncatedIsError ==
    ParsedTruncated => result.status = "err" /\ result.value = NoElement

\* parse_html has aborted on the empty input.
C6_Witness == ParsedTruncated /\ input = <<>> /\ result.status = "panic"

\* C7: an element written in self-closing form, whatever its name and its
\* attributes, parses to the element of that name, with those attributes and no
\* children, and nothing after its > is consumed.
C7_SelfClosingParses ==
    (ParsedWhole /\ doc.form = "self")
        => /\ result.status = "ok"
           /\ result.value = HtmlElement(doc.name, doc.attributes, <<>>, None)
           /\ result.position = Len(result.tokens)

\* parse_html has aborted on a self-closing tag written without attributes and
\* without a blank before its /.
C7_Witness ==
    /\ ParsedWhole /\ doc.form = "self" /\ ~doc.space /\ doc.attributes = <<>>
    /\ result.status = "panic"

\* C8: an element named meta parses to a childless element and the parser stops
\* right after the > of its opening tag, whatever follows; an element named
\* script parses to a childless element, everything up to its </script> being
\* skipped; and a well written document with such elements in it parses to its
\* tree, in which they have no children.
C8_MetaAndScript ==
    ParsedWhole =>
        /\ (doc.name = S_meta /\ doc.form \in {"void", "elem"}) =>
              /\ result.status = "ok"
              /\ result.value = HtmlElement(S_meta, doc.attributes, <<>>, None)
              /\ result.position >= 1
              /\ result.tokens[result.position] = RAngle
              /\ \A i \in 1..(result.position - 1) : result.tokens[i] # RAngle
        /\ (doc.name = S_script /\ WellWritten(doc, FALSE)) =>
              /\ result.status = "ok"
              /\ result.value = HtmlElement(S_script, doc.attributes, <<>>, None)
              /\ result.position = Len(result.tokens)
        /\ (HasMetaOrScript(doc) /\ WellWritten(doc, FALSE)) =>
              /\ result.status = "ok"
              /\ result.value = Expected(doc)

\* parse_html has returned a script element whose content holds an element.
C8_Witness ==
    /\ ParsedWhole /\ result.status = "ok"
    /\ doc.form = "elem" /\ doc.name = S_script
    /\ \E i \in 1..Len(doc.children) : doc.children[i].form = "elem"
    /\ result.value.children = <<>>

\* C9: an element whose content is N words separated by blanks parses to an
\* element with exactly N children, the i-th a textNode whose text is the i-th
\* word.
C9_WordsBecomeTextNodes ==
    (/\ ParsedWhole
     /\ doc.form = "elem" /\ doc.name \notin {S_meta, S_script} /\ doc.close = doc.name
     /\ \A i \in 1..Len(doc.children) : doc.children[i].form = "text")
        => /\ result.status = "ok"
           /\ Len(result.value.children) = Len(doc.children)
           /\ \A i \in 1..Len(doc.children) :
                 result.value.children[i]
                     = HtmlElement(S_textNode, <<>>, <<>>, Some(doc.children[i].name))

\* parse_html has returned an element written with three words, the first two
\* different.
C9_Witness ==
    /\ ParsedWhole /\ result.status = "ok"
    /\ doc.form = "elem" /\ Len(doc.children) >= 3
    /\ \A i \in 1..Len(doc.children) : doc.children[i].form = "text"
    /\ doc.children[1].name # doc.children[2].name
    /\ Len(result.value.children) >= 3

(***************************************************************************)
(* Properties of the lexers, checked under SpecLex.                        *)
(***************************************************************************)
\* No token is whitespace: a bare-text token is a non-empty run without a
\* whitespace character in it.
NoWhitespaceToken ==
    \A i \in 1..Len(tokens) :
        tokens[i].kind \in {"Text", "Ident"} =>
            /\ tokens[i].text # <<>>
            /\ \A j \in 1..Len(tokens[i].text) : ~is_whitespace(tokens[i].text[j])

\* C10: tokenize_html and tokenize_css never index past the input, every
\* iteration of their loop moves the position forward, the position stays
\* within one of the input's length (so the loop ends), and they emit no
\* whitespace token.
C10_LexersTotal ==
    /\ [](lexpc # "panic" /\ position <= Len(chars) + 1 /\ NoWhitespaceToken)
    /\ [][\/ position' > position
          \/ lexpc' = "done" /\ position' = position /\ tokens' = tokens]_vars

\* tokenize_html has returned from an input that ends inside a quoted value.
C10_Witness ==
    /\ lexer = "html" /\ lexpc = "done"
    /\ position = Len(chars) + 1
    /\ tokens # <<>> /\ tokens[Len(tokens)].kind = "QuotedText"

\* The 0-based index of the first " of cs at or after p, Len(cs) if there is none.
NextQuote(cs, p) ==
    IF \E q \in p..(Len(cs) - 1) : cs[q + 1] = "\""
    THEN CHOOSE q \in p..(Len(cs) - 1) :
            cs[q + 1] = "\"" /\ \A r \in p..(q - 1) : cs[r + 1] # "\""
    ELSE Len(cs)

\* C11: an iteration of tokenize_html that starts at a " pushes exactly one
\* token, a quoted text holding the characters after that " up to, not
\* including, the next " (none for ""), and leaves the position one past that
\* closing quote.
C11_QuotedText ==
    [][(lexer = "html" /\ lexpc = "loop" /\ position < Len(chars)
           /\ chars[position + 1] = "\"")
        => /\ tokens' = Append(tokens,
                           QuotedText(SubSeq(chars, position + 2,
                                             NextQuote(chars, position + 1))))
           /\ position' = NextQuote(chars, position + 1) + 1]_vars

\* tokenize_html has just lexed "" (closed), and holds a quoted text that is
\* empty.
C11_Witness ==
    /\ lexer = "html" /\ lexpc = "loop"
    /\ position >= 2 /\ position <= Len(chars)
    /\ chars[position] = "\"" /\ chars[position - 1] = "\""
    /\ tokens # <<>> /\ tokens[Len(tokens)] = QuotedText(<<>>)

(***************************************************************************)
(* Properties of parse_css, checked under SpecCss.                         *)
(***************************************************************************)
\* parse_css has run on the whole text of a written sheet.
CssParsedWhole ==
    cssresult # CssNotRun /\ sheet.form = "sheet" /\ css = RenderSheet(sheet)

\* C12: parse_css of a bare declaration list of n >= 1 well formed
\* declarations returns exactly one record, without a selector, whose rules are
\* the n (property, value) pairs in the order written.
C12_BareDeclarationList ==
    (/\ CssParsedWhole
     /\ Len(sheet.records) = 1
     /\ sheet.records[1].selector = None)
        => /\ cssresult.status = "ok"
           /\ cssresult.styles = <<Style(None, sheet.records[1].rules)>>

\* parse_css has returned the record of a list of three declarations, the first
\* two different, written with blanks.
C12_Witness ==
    /\ CssParsedWhole /\ cssresult.status = "ok"
    /\ ~sheet.tight
    /\ Len(sheet.records) = 1 /\ sheet.records[1].selector = None
    /\ Len(sheet.records[1].rules) >= 3
    /\ sheet.records[1].rules[1] # sheet.records[1].rules[2]
    /\ Len(cssresult.styles) = 1

\* The kinds of the tokens parse_css read.
CssKinds == [i \in 1..Len(cssresult.tokens) |-> cssresult.tokens[i].kind]

\* ks starts with a declaration: ident : ident ;
StartsWithDecl(ks) ==
    Len(ks) >= 4 /\ SubSeq(ks, 1, 4) = <<"Ident", "Colon", "Ident", "SemiColon">>

RECURSIVE SkipDecls(_)
SkipDecls(ks) ==
    IF StartsWithDecl(ks) THEN SkipDecls(SubSeq(ks, 5, Len(ks))) ELSE ks

RECURSIVE MatchesGrammar(_)
\* ks is a sequence of declarations and of blocks ident { declarations }.
MatchesGrammar(ks) ==
    IF ks = <<>> THEN TRUE
    ELSE IF StartsWithDecl(ks) THEN MatchesGrammar(SubSeq(ks, 5, Len(ks)))
    ELSE /\ Len(ks) >= 2 /\ ks[1] = "Ident" /\ ks[2] = "LBrace"
         /\ SkipDecls(SubSeq(ks, 3, Len(ks))) # <<>>
         /\ SkipDecls(SubSeq(ks, 3, Len(ks)))[1] = "RBrace"
         /\ MatchesGrammar(Tail(SkipDecls(SubSeq(ks, 3, Len(ks)))))

\* C13: for every token sequence that is no sequence of declarations and
\* blocks, parse_css returns an error value and no records; it does not abort.
C13_UngrammaticalIsError ==
    (cssresult # CssNotRun /\ ~MatchesGrammar(CssKinds))
        => cssresult.status = "err" /\ cssresult.styles = <<>>

\* parse_css has aborted on a written sheet cut short.
C13_Witness ==
    /\ cssresult # CssNotRun /\ ~MatchesGrammar(CssKinds)
    /\ sheet.form = "sheet" /\ Len(css) < Len(RenderSheet(sheet))
    /\ cssresult.status = "panic"

(***************************************************************************)
(* Properties of the parser loops, checked under SpecLoop.                 *)
(***************************************************************************)
\* C14: every iteration of the child-list, attribute-list, script-scan,
\* declaration-list and record-list loops either moves the parser's position
\* strictly forward or ends the parse; and the position never passes the end of
\* the tokens by more than the one step the script scan takes before it stops.
\* So every loop runs at most as many iterations as there are tokens, plus one.
C14_LoopsAdvance ==
    /\ [](\/ ppos <= Len(ptokens)
          \/ ppos = Len(ptokens) + 1 /\ lastiter.loop = "script")
    /\ [][\/ ppos' > ppos
          \/ ppos' = ppos /\ lastiter'.status \in {"err", "panic"}]_vars

\* The child-list loop has read a whole element in the middle of the tokens and
\* goes on.
C14_Witness ==
    /\ lastiter.loop = "elements" /\ lastiter.status = "ok"
    /\ lastiter.from > 0 /\ lastiter.to >= lastiter.from + 7
    /\ ppos < Len(ptokens)

\* The trace handed to the onEnter of the node at path (which has been entered).
EnterTrace(path) ==
    events[CHOOSE j \in 1..Len(events) : events[j].kind = "enter" /\ events[j].path = path].trace

\* C15: a node's onLeave receives the trace its onEnter received.  For an
\* element that trace ends with the element's own (name, attributes); for a
\* textNode leaf it is the trace the onEnter of its parent received.
C15_EnterAndLeaveTraces ==
    /\ \A i \in 1..Len(events) :
          events[i].kind = "leave" => events[i].trace = EnterTrace(events[i].path)
    /\ \A i \in 1..Len(events) :
          IF events[i].name # S_textNode
          THEN /\ events[i].trace # <<>>
               /\ events[i].trace[Len(events[i].trace)]
                     = <<NodeAt(html, events[i].path).name,
                         NodeAt(html, events[i].path).attributes>>
          ELSE events[i].path # <<>> =>
                  events[i].trace
                     = EnterTrace(SubSeq(events[i].path, 1, Len(events[i].path) - 1))

\* A text leaf that follows an element with children of its own has been left,
\* and so has an element below the root that carries attributes.
C15_Witness ==
    /\ \E i \in 1..Len(events) :
          /\ events[i].kind = "leave" /\ events[i].name = S_textNode
          /\ events[i].index >= 1
          /\ NodeAt(html, SubSeq(events[i].path, 1, Len(events[i].path) - 1))
                .children[events[i].index].children # <<>>
    /\ \E i \in 1..Len(events) :
          /\ events[i].kind = "leave" /\ events[i].name # S_textNode
          /\ events[i].path # <<>>
          /\ NodeAt(html, events[i].path).attributes # <<>>

\* The entries a flex node with the given trace and children adds for a gap g:
\* for each child i after the first, the names of the trace joined with ":",
\* then ":", the child's name, "[i]" and ".gap-left".
FlexKeys(tr, children) ==
    {Join(names(tr), <<":">>) \o <<":">> \o children[i + 1].name
         \o <<"[">> \o ToDecimal(i) \o <<"]", ".">> \o S_gap_left
       : i \in 1..(Len(children) - 1)}

\* C16: the onEnter of an element whose style is display:flex with gap 4px
\* leaves the map as it received it but for one entry per child after the
\* first, holding "4px" under that child's key; there is none for child 0.
C16_FlexInsertsGaps ==
    \A e \in 1..Len(events) :
        (events[e].kind = "enter"
            /\ NodeAt(html, events[e].path).attributes = <<<<S_style, S_flexgap>>>>) =>
        LET children == NodeAt(html, events[e].path).children
            new == FlexKeys(events[e].trace, children)
            pre == events[e].pre.layout
            post == events[e].post.layout
        IN /\ DOMAIN post = DOMAIN pre \cup new
           /\ \A k \in DOMAIN post : post[k] = IF k \in new THEN S_4px ELSE pre[k]
           /\ Cardinality(new) = Len(children) - (IF children = <<>> THEN 0 ELSE 1)
           /\ children # <<>> =>
                 LET first == Join(names(events[e].trace), <<":">>) \o <<":">>
                                 \o children[1].name \o <<"[", "0", "]", ".">> \o S_gap_left
                 IN first \in DOMAIN post => first \in DOMAIN pre

\* A flex node below a flex node, entered while the map holds the outer node's
\* entries, has two children, an element and then a text leaf.
C16_Witness ==
    \E e \in 1..Len(events) :
        /\ events[e].kind = "enter"
        /\ NodeAt(html, events[e].path).attributes = <<<<S_style, S_flexgap>>>>
        /\ Len(NodeAt(html, events[e].path).children) = 2
        /\ NodeAt(html, events[e].path).children[1].name # S_textNode
        /\ NodeAt(html, events[e].path).children[2].name = S_textNode
        /\ DOMAIN events[e].pre.layout # {}
        /\ Cardinality(DOMAIN events[e].post.layout) = Cardinality(DOMAIN events[e].pre.layout) + 1

Parent(path) == SubSeq(path, 1, Len(path) - 1)

\* The key a flex node's onEnter stores for its child at path.
KeyOfChild(path) ==
    Join(names(EnterTrace(Parent(path))), <<":">>) \o <<":">> \o NodeAt(html, path).name
        \o <<"[">> \o ToDecimal(path[Len(path)]) \o <<"]", ".">> \o S_gap_left

\* C18: the entry a flex node stored for its child i > 0 is in the map when the
\* onEnter of that child is called, and the onLeave of a node removes no entry
\* that another node stored.
C18_OverrideSurvives ==
    /\ \A e \in 1..Len(events) :
          (/\ events[e].kind = "enter" /\ events[e].path # <<>> /\ events[e].index > 0
           /\ NodeAt(html, Parent(events[e].path)).attributes = <<<<S_style, S_flexgap>>>>)
          => KeyOfChild(events[e].path) \in DOMAIN events[e].pre.layout
    /\ \A e \in 1..Len(events) :
          events[e].kind = "leave" =>
             \A key \in DOMAIN events[e].pre.layout \ DOMAIN events[e].post.layout :
                 inserted[key] = events[e].path

\* The second child of a flex node is entered after a text leaf, its first
\* child, was left: the entry stored for the second child is gone.
C18_Witness ==
    \E e \in 1..Len(events) :
        /\ events[e].kind = "enter" /\ events[e].path # <<>> /\ events[e].index = 1
        /\ NodeAt(html, Parent(events[e].path)).attributes = <<<<S_style, S_flexgap>>>>
        /\ NodeAt(html, Parent(events[e].path)).children[1].name = S_textNode
        /\ KeyOfChild(events[e].path) \notin DOMAIN events[e].pre.layout

\* The same with elements only before the child: the entry is there.
C18_ElementsKeepOverride ==
    \A e \in 1..Len(events) :
        (/\ events[e].kind = "enter" /\ events[e].path # <<>> /\ events[e].index > 0
         /\ NodeAt(html, Parent(events[e].path)).attributes = <<<<S_style, S_flexgap>>>>
         /\ \A j \in 1..events[e].index :
               NodeAt(html, Parent(events[e].path)).children[j].name # S_textNode)
        => KeyOfChild(events[e].path) \in DOMAIN events[e].pre.layout

(***************************************************************************)
(* Properties of the cursor, checked under SpecFlow.                       *)
(***************************************************************************)
\* The node at path has an ancestor named body.
InsideBody(path) ==
    \E d \in 1..Len(path) : NodeAt(html, SubSeq(path, 1, d - 1)).name = S_body

IsTextLeaf(path) == NodeAt(html, path).text_node # None

\* The measured width of the node's text, 0 for an element.
TextWidth(path) ==
    IF IsTextLeaf(path) THEN measure_str(NodeAt(html, path).text_node[1]).width ELSE 0

\* A value such as "4px" as a number of pixels.
Pixels(v) == LET px == parse_f32(trim_end_px(v)) IN IF px = None THEN 0 ELSE px[1]

\* The callbacks the gap rule is about: onEnter of a node inside the body that
\* is not a br.
GapCalls ==
    {e \in 1..Len(events) :
        /\ events[e].kind = "enter" /\ events[e].name # S_br
        /\ InsideBody(events[e].path)}

BrokeLine(e) ==
    events[e].post.cursor_position = <<25, events[e].pre.cursor_position[2] + 36>>

\* C19, as the claim states it: the onEnter of every br puts the cursor at
\* x = 25, one line (36) further down, with no gap added.
C19_BrBreaksLine ==
    \A e \in 1..Len(events) :
        (events[e].kind = "enter" /\ events[e].name = S_br) => BrokeLine(e)

\* C19, as the code has it: the onEnter of a br inside the body puts the cursor
\* at x = 25, one line (36) further down, with no gap added, whether or not an
\* override is stored for it; the onEnter of a br outside the body leaves the
\* cursor where it was.
C19_BrInBodyBreaksLine ==
    \A e \in 1..Len(events) :
        (events[e].kind = "enter" /\ events[e].name = S_br) =>
            IF InsideBody(events[e].path) THEN BrokeLine(e)
            ELSE events[e].post.cursor_position = events[e].pre.cursor_position

\* A br inside the body has been entered with the cursor off the left margin
\* and an override stored for it.
C19_Witness ==
    \E e \in 1..Len(events) :
        /\ events[e].kind = "enter" /\ events[e].name = S_br
        /\ InsideBody(events[e].path)
        /\ events[e].pre.cursor_position[1] > 25
        /\ KeyOfChild(events[e].path) \in DOMAIN events[e].pre.layout

\* C20: the onLeave of every div puts the cursor at x = 25, one line (36)
\* further down, inside the body or not; the onLeave of a node of any other
\* name leaves the cursor where it was.
C20_DivLeaveBreaksLine ==
    \A e \in 1..Len(events) :
        events[e].kind = "leave" =>
            IF events[e].name = S_div THEN BrokeLine(e)
            ELSE events[e].post.cursor_position = events[e].pre.cursor_position

\* A div outside any body has been left with the cursor where the walk began,
\* or a div inside the body with the cursor off the left margin, and then a
\* node of another name.
C20_Witness ==
    \E e \in 1..Len(events) :
        /\ events[e].kind = "leave" /\ events[e].name = S_div
        /\ \/ ~InsideBody(events[e].path)
           \/ events[e].pre.cursor_position[1] > 25
        /\ \E f \in (e + 1)..Len(events) :
              events[f].kind = "leave" /\ events[f].name \in {S_p, S_body}

(***************************************************************************)
(* Further properties of the markup lexer, checked under SpecLex.          *)
(***************************************************************************)
\* C23: every bare-text token tokenize_html has pushed is a non-empty run with
\* no whitespace, no <, > or =, and no quote character in it.
C23_TextTokensClean ==
    lexer = "html" =>
        \A i \in 1..Len(tokens) :
            tokens[i].kind = "Text" =>
                /\ tokens[i].text # <<>>
                /\ \A j \in 1..Len(tokens[i].text) :
                      /\ ~is_whitespace(tokens[i].text[j])
                      /\ tokens[i].text[j] \notin {"<", ">", "=", "\""}

\* tokenize_html has returned a bare-text token with a quote character after its
\* first character.
C23_Witness ==
    /\ lexer = "html" /\ lexpc = "done"
    /\ \E i \in 1..Len(tokens) :
          /\ tokens[i].kind = "Text" /\ Len(tokens[i].text) >= 2
          /\ tokens[i].text[1] # "\""
          /\ \E j \in 2..Len(tokens[i].text) : tokens[i].text[j] = "\""

\* The same without the quote: no bare-text token is empty or holds whitespace,
\* <, > or =, and none starts with a quote or a slash.
C23_TextTokensButForQuotes ==
    lexer = "html" =>
        \A i \in 1..Len(tokens) :
            tokens[i].kind = "Text" =>
                /\ tokens[i].text # <<>>
                /\ tokens[i].text[1] \notin {"\"", "/"}
                /\ \A j \in 1..Len(tokens[i].text) :
                      /\ ~is_whitespace(tokens[i].text[j])
                      /\ tokens[i].text[j] \notin {"<", ">", "="}

(***************************************************************************)
(* Further properties of parse_html, checked under SpecParse.              *)
(***************************************************************************)
IsWord(t) == t # <<>> /\ \A j \in 1..Len(t) : ~is_whitespace(t[j])

RECURSIVE PayloadOnlyOnLeaves(_)
\* Every node of the tree with a text payload is named textNode, has no
\* attributes and no children, and its payload is one word.
PayloadOnlyOnLeaves(node) ==
    /\ node.text_node # None =>
          /\ node.name = S_textNode
          /\ node.attributes = <<>> /\ node.children = <<>>
          /\ IsWord(node.text_node[1])
    /\ \A i \in 1..Len(node.children) : PayloadOnlyOnLeaves(node.children[i])

RECURSIVE TextNodesHavePayload(_)
\* Every node of the tree named textNode has a text payload.
TextNodesHavePayload(node) ==
    /\ node.name = S_textNode => node.text_node # None
    /\ \A i \in 1..Len(node.children) : TextNodesHavePayload(node.children[i])

\* C24: in every tree parse_html returns, a node has a text payload if and only
\* if it is named textNode; such a node has no attributes, no children and a
\* payload of one word; an element built from a tag has no payload.
C24_PayloadIffTextNode ==
    (result # NotRun /\ result.status = "ok") =>
        PayloadOnlyOnLeaves(result.value) /\ TextNodesHavePayload(result.value)

\* parse_html has returned a tree in which a node built from the tag <textNode>
\* is named textNode and has attributes, a child and no payload.
C24_Witness ==
    /\ ParsedWhole /\ result.status = "ok"
    /\ doc.form = "elem" /\ doc.name = S_p
    /\ result.value.children # <<>>
    /\ result.value.children[1].name = S_textNode
    /\ result.value.children[1].text_node = None
    /\ result.value.children[1].attributes # <<>>
    /\ result.value.children[1].children # <<>>

\* One direction holds: a payload is only ever on a childless, attributeless
\* node named textNode, and is one word.
C24_PayloadImpliesTextNode ==
    (result # NotRun /\ result.status = "ok") => PayloadOnlyOnLeaves(result.value)

(***************************************************************************)
(* Further properties of parse_css, checked under SpecCss.                 *)
(***************************************************************************)
\* C25: a sheet written as k blocks `name { declarations }` parses to exactly k
\* records, in the order written, the i-th with the i-th block's name as its
\* selector and that block's declarations in order.
C25_BlocksBecomeRecords ==
    (/\ CssParsedWhole
     /\ \A i \in 1..Len(sheet.records) : sheet.records[i].selector # None)
        => /\ cssresult.status = "ok"
           /\ Len(cssresult.styles) = Len(sheet.records)
           /\ \A i \in 1..Len(sheet.records) :
                 /\ cssresult.styles[i].selector = sheet.records[i].selector
                 /\ cssresult.styles[i].rules = sheet.records[i].rules
           /\ cssresult.position = Len(cssresult.tokens)

\* parse_css has returned three records for three blocks, the first with two
\* declarations, the last with none.
C25_Witness ==
    /\ CssParsedWhole /\ cssresult.status = "ok"
    /\ Len(sheet.records) = 3 /\ Len(cssresult.styles) = 3
    /\ Len(cssresult.styles[1].rules) = 2
    /\ cssresult.styles[1].rules[1] # cssresult.styles[1].rules[2]
    /\ cssresult.styles[2].selector = Some(S_div)
    /\ cssresult.styles[3].rules = <<>>

(***************************************************************************)
(* Properties of the layout policy, checked under SpecPage.                *)
(***************************************************************************)
\* The onEnter calls that draw link text: on a text leaf inside the body whose
\* parent is an element named a, in the order of the calls.
LinkCalls ==
    SelectSeq([e \in 1..Len(events) |-> e],
              LAMBDA e : /\ events[e].kind = "enter"
                         /\ IsTextLeaf(events[e].path)
                         /\ InsideBody(events[e].path)
                         /\ NodeAt(html, Parent(events[e].path)).name = S_a)

\* The value of the first attribute with the given key (there is one).
FirstValue(attrs, key) ==
    attrs[CHOOSE i \in 1..Len(attrs) :
              attrs[i][1] = key /\ \A j \in 1..(i - 1) : attrs[j][1] # key][2]

\* C21: when the walk has returned, the hyperlink list holds one pair per text
\* leaf inside the body whose parent is an anchor, in document order and no
\* other pair; the target of each is the href value of that anchor and the left
\* edge of its box is the cursor x the onEnter of the leaf received, where the
\* text was drawn.
C21_LinksAreAnchorTexts ==
    walkpc = "done" =>
        /\ Len(state.hyper_links) = Len(LinkCalls)
        /\ \A i \in 1..Len(LinkCalls) :
              LET e == LinkCalls[i]
                  link == state.hyper_links[i]
              IN /\ link.path = FirstValue(NodeAt(html, Parent(events[e].path)).attributes, S_href)
                 /\ link.rect.left = events[e].pre.cursor_position[1]
                 /\ events[e].drawn # <<>>
                 /\ events[e].drawn[1].x = link.rect.left

\* The walk of a body with two anchors of different targets has returned: the
\* first with two words of text, and three links are in the list.
C21_Witness ==
    /\ walkpc = "done"
    /\ html.name = S_body /\ Len(html.children) = 2
    /\ Len(html.children[1].children) = 2
    /\ Len(state.hyper_links) = 3
    /\ state.hyper_links[1].path = S_u /\ state.hyper_links[3].path = S_w
    /\ state.hyper_links[1].rect.left < state.hyper_links[2].rect.left

RECURSIVE LeafTexts(_)
\* The text of the text leaves of a subtree, in document order.
LeafTexts(node) ==
    IF node.text_node # None THEN <<node.text_node[1]>>
    ELSE Concat([i \in 1..Len(node.children) |-> LeafTexts(node.children[i])])

\* The callbacks on the nodes of the subtree at path leave the cursor and the
\* hyperlink list as they receive them.
SubtreeLeavesFlowAlone(path) ==
    \A f \in 1..Len(events) :
        IsPrefix(path, events[f].path) =>
            /\ events[f].post.cursor_position = events[f].pre.cursor_position
            /\ events[f].post.hyper_links = events[f].pre.hyper_links

\* C22: the onEnter of a title element draws, as the page title, the text of
\* all the text leaves below it, at any depth, joined with spaces (a space
\* after the last word is let pass); and no callback on the title's subtree
\* changes the cursor or the hyperlink list.
C22_TitleIsDescendantText ==
    \A e \in 1..Len(events) :
        (events[e].kind = "enter" /\ events[e].name = S_title) =>
            LET words == LeafTexts(NodeAt(html, events[e].path)) IN
            /\ ~events[e].panic
            /\ Len(events[e].drawn) = 1
            /\ events[e].drawn[1].op = "title"
            /\ events[e].drawn[1].text \in {Join(words, <<" ">>), Join(words, <<" ">>) \o <<" ">>}
            /\ SubtreeLeavesFlowAlone(events[e].path)

\* The onEnter of a title whose child is an element has panicked, inside the
\* body, after a link was drawn.
C22_Witness ==
    /\ walkpc = "panic"
    /\ events[Len(events)].name = S_title /\ events[Len(events)].panic
    /\ NodeAt(html, events[Len(events)].path).children[1].text_node = None
    /\ InsideBody(events[Len(events)].path)
    /\ events[Len(events)].pre.hyper_links # <<>>

\* What holds: for a title whose children are all text leaves, the title drawn
\* is each word followed by a space, and the subtree leaves cursor and links
\* alone.
C22_TitleOfDirectText ==
    \A e \in 1..Len(events) :
        (/\ events[e].kind = "enter" /\ events[e].name = S_title
         /\ \A i \in 1..Len(NodeAt(html, events[e].path).children) :
               NodeAt(html, events[e].path).children[i].text_node # None) =>
            LET words == LeafTexts(NodeAt(html, events[e].path)) IN
            /\ ~events[e].panic
            /\ Len(events[e].drawn) = 1
            /\ events[e].drawn[1].text = Join(words, <<" ">>) \o <<" ">>
            /\ SubtreeLeavesFlowAlone(events[e].path)

\* The onEnter calls on a node whose style is display:flex with no gap.
FlexOnlyCalls ==
    {e \in 1..Len(events) :
        /\ events[e].kind = "enter"
        /\ NodeAt(html, events[e].path).attributes = <<<<S_style, S_flexonly>>>>}

\* C26: the onEnter of a node whose style is display:flex without a gap adds no
\* entry to the override map and returns, so that the walk goes on to every
\* remaining node.
C26_FlexWithoutGapIsSkipped ==
    /\ \A e \in FlexOnlyCalls :
          /\ ~events[e].panic
          /\ events[e].post.layout = events[e].pre.layout
    /\ (walkpc = "done" /\ FlexOnlyCalls # {}) => Calls = Tour(html, <<>>)

\* The onEnter of such a node has panicked with an item of the page still to
\* visit; it added no entry.
C26_Witness ==
    /\ walkpc = "panic"
    /\ Len(events) \in FlexOnlyCalls
    /\ events[Len(events)].panic
    /\ events[Len(events)].post.layout = events[Len(events)].pre.layout
    /\ events[Len(events)].path = <<0>> /\ Len(html.children) = 2

\* No walk of a page with such a node returns.
C26_NoReturnAfterFlexWithoutGap == FlexOnlyCalls # {} => walkpc # "done"

HasKey(attrs, key) == \E i \in 1..Len(attrs) : attrs[i][1] = key

\* The style and href lookups use the first attribute of that key: a node
\* whose first style is display:flex with a gap stores its children's entries,
\* a node whose first style is not flex stores none, and the target of a link
\* is the first href of its anchor.
StyleAndHrefUseFirst ==
    \A e \in 1..Len(events) :
        events[e].kind = "enter" =>
            LET node == NodeAt(html, events[e].path) IN
            /\ (HasKey(node.attributes, S_style) /\ ~events[e].panic) =>
                  DOMAIN events[e].post.layout =
                      DOMAIN events[e].pre.layout
                         \cup (IF FirstValue(node.attributes, S_style) = S_flexgap
                               THEN FlexKeys(events[e].trace, node.children) ELSE {})
            /\ Len(events[e].post.hyper_links) > Len(events[e].pre.hyper_links) =>
                  events[e].post.hyper_links[Len(events[e].post.hyper_links)].path
                     = FirstValue(NodeAt(html, Parent(events[e].path)).attributes, S_href)

\* The text and bgcolor lookups of body use the first attribute of that key:
\* the current color becomes the first text value, and the body is filled once,
\* with the first bgcolor value.
BodyUsesFirst ==
    \A e \in 1..Len(events) :
        (events[e].kind = "enter" /\ events[e].name = S_body) =>
            LET attrs == NodeAt(html, events[e].path).attributes IN
            /\ HasKey(attrs, S_text) =>
                  events[e].post.current_color = FirstValue(attrs, S_text)
            /\ HasKey(attrs, S_bgcolor) =>
                  /\ events[e].drawn # <<>>
                  /\ \A d \in 1..Len(events[e].drawn) :
                        events[e].drawn[d].op = "rect" =>
                            events[e].drawn[d].color = FirstValue(attrs, S_bgcolor)

\* C27: where an element has the same attribute key more than once, the style,
\* href, text and bgcolor lookups of the layout policy all use the value of the
\* first occurrence.
C27_FirstOccurrenceWins == StyleAndHrefUseFirst /\ BodyUsesFirst

\* A body with two text attributes has been entered and the current color is
\* the second value; text has since been drawn in it.
C27_Witness ==
    /\ html.name = S_body
    /\ html.attributes = <<<<S_text, S_111>>, <<S_text, S_222>>>>
    /\ events # <<>> /\ events[1].post.current_color = S_222
    /\ \E d \in 1..Len(canvas) : canvas[d].op = "text" /\ canvas[d].color = S_222

\* What holds: style and href use the first occurrence; body applies every
\* text and bgcolor attribute in turn, so the last text value is the color in
\* force and the last bgcolor fill is the one on top.
C27_BodyAppliesEveryAttribute ==
    /\ StyleAndHrefUseFirst
    /\ \A e \in 1..Len(events) :
          (events[e].kind = "enter" /\ events[e].name = S_body) =>
              LET attrs == NodeAt(html, events[e].path).attributes
                  fills == SelectSeq(attrs, LAMBDA a : a[1] = S_bgcolor)
                  texts == SelectSeq(attrs, LAMBDA a : a[1] = S_text)
              IN /\ texts # <<>> => events[e].post.current_color = texts[Len(texts)][2]
                 /\ [d \in 1..Len(events[e].drawn) |-> events[e].drawn[d].color]
                       = [d \in 1..Len(fills) |-> fills[d][2]]

\* C28: the onEnter of a node whose trace holds no body leaves the cursor, the
\* current text color and the hyperlink list as it received them, whatever the
\* node's name and whether or not it has text.
C28_OutsideBodyNoFlow ==
    \A e \in 1..Len(events) :
        (/\ events[e].kind = "enter"
         /\ \A i \in 1..Len(events[e].trace) : events[e].trace[i][1] # S_body) =>
            /\ events[e].post.cursor_position = events[e].pre.cursor_position
            /\ events[e].post.current_color = events[e].pre.current_color
            /\ events[e].post.hyper_links = events[e].pre.hyper_links

\* Outside any body the text of an anchor with an href, a br and a div with a
\* flex style have been entered.
C28_Witness ==
    /\ html.name # S_body
    /\ \E e \in 1..Len(events) :
          /\ events[e].kind = "enter" /\ IsTextLeaf(events[e].path)
          /\ Len(events[e].path) = 2
          /\ NodeAt(html, Parent(events[e].path)).name = S_a
          /\ HasKey(NodeAt(html, Parent(events[e].path)).attributes, S_href)
    /\ \E e \in 1..Len(events) :
          events[e].kind = "enter" /\ events[e].name \in {S_br, S_div}

(***************************************************************************)
(* Tokens after the first element, checked under SpecTail.                 *)
(***************************************************************************)
\* C29: when the tokens of a document parse to a tree, the same tokens followed
\* by any further tokens parse to that tree too, and the parser stops at the
\* same position: nothing after the first complete element is examined.
C29_TrailingTokensIgnored ==
    (extended # NotRun /\ whole.status = "ok") =>
        /\ extended.status = "ok"
        /\ extended.value = whole.value
        /\ extended.position = whole.position

\* A document with a child element has parsed to the same tree alone and
\* followed by a stray closing tag.
C29_Witness ==
    /\ extended # NotRun /\ whole.status = "ok" /\ extended.status = "ok"
    /\ tail = <<LAngle, Slash, Text(S_a), RAngle>>
    /\ whole.value.children # <<>>
    /\ whole.value.children[1].text_node = None
    /\ whole.position = Len(base)

(***************************************************************************)
(* The tree a redraw walks, checked under SpecApp.                         *)
(***************************************************************************)
\* C30: whatever the order of redraws, clicks and task steps, the tree a redraw
\* walks (if there is one) was fetched for the path the application has at that
\* redraw, and so is the tree App.html holds at any time; and no task spawned
\* before a click holds the Arc that App.html points to after it.
C30_WalkedTreeIsOfCurrentPath ==
    /\ \A i \in 1..Len(walked) :
          walked[i].tree # None => walked[i].tree[1].path = walked[i].path
    /\ slots[html_slot] # None => slots[html_slot][1].path = cur_path
    /\ \A t \in tasks : t.epoch < clicks => t.slot # html_slot

\* A task spawned before a click has stored its tree after the click, and a
\* later redraw has walked the tree of the new path.
C30_Witness ==
    /\ \E t \in tasks : t.pc = "done" /\ t.epoch = 0 /\ t.stored >= 1
    /\ walked # <<>>
    /\ walked[Len(walked)].path = "a"
    /\ walked[Len(walked)].tree # None

(***************************************************************************)
(* Hit-boxes of one page that hold a common point.                         *)
(***************************************************************************)
\* main.rs 355-359: the box holds the point, its edges included
contains(rect, pos) ==
    /\ rect.left <= pos[1] /\ pos[1] <= rect.right
    /\ rect.top <= pos[2] /\ pos[2] <= rect.bottom

(***************************************************************************)
(* The application, a lock and an unlock at a time: main.rs, window_event  *)
(* and the fetch task.  The event loop thread is thread 0, a task is the   *)
(* thread of its id.  A statement that locks a mutex and drops the guard   *)
(* at its end without locking another is one step, taken when the mutex is *)
(* free; a guard that lives on is in held until the step that drops it.    *)
(***************************************************************************)
MaxFetches == 2
MaxInputs == 1

Mutex(m, n) == [m |-> m, n |-> n]
WindowMutex == Mutex("window", 0)
LinksMutex == Mutex("hyper_links", 0)
MouseMutex == Mutex("mouse_cursor_position", 0)
\* the Mutex inside the Arc that App.html pointed to when slot n was made
HtmlMutex(n) == Mutex("html", n)
NoMutex == Mutex("none", 0)

Guard(l, by) == [m |-> l.m, n |-> l.n, by |-> by]
Free(l) == \A g \in held : g.m # l.m \/ g.n # l.n

\* The guards alive after the store, were the guard of html.lock() bound to a
\* name that lives to the end of the task.
guard_kept_after_store(guards, l, by) == guards

\* main.rs 340: the guard of html.lock() is a temporary of the assignment
\* statement and is dropped at its end, before window.lock()
guard_after_store(guards, l, by) == guards \ {Guard(l, by)}

\* The hit-boxes two links get when the second is drawn over the end of the
\* first: a text of two glyphs at the left margin, and a text of one glyph
\* that starts where the second glyph of the first does.
Box(l, r) == [left |-> l, top |-> ContentTop + LineHeight - FontSize,
              right |-> r, bottom |-> ContentTop + LineHeight + GlyphHeight - FontSize]
WideBox == Box(LeftMargin, LeftMargin + 2 * GlyphWidth)
LateBox == Box(LeftMargin + GlyphWidth, LeftMargin + 2 * GlyphWidth)
HyperLink(rect, target) == [rect |-> rect, path |-> target]

\* What the server holds, each page with the links its walk collects: None
\* where fetch(..).unwrap() or parse_html(..).unwrap() panics in the task.
Hosted(p) ==
    CASE p = "" -> Some(Tree("", <<HyperLink(WideBox, "a"), HyperLink(LateBox, "c")>>))
      [] p = "a" -> Some(Tree("a", <<HyperLink(WideBox, "c"), HyperLink(LateBox, "")>>))
      [] OTHER -> None

\* Where the cursor is moved to: outside every box, inside the first box only,
\* inside both.
MousePoints ==
    {<<0, 0>>,
     <<LeftMargin + 1, ContentTop + LineHeight - FontSize + 1>>,
     <<LeftMargin + GlyphWidth + 1, ContentTop + LineHeight - FontSize + 1>>}

\* The mutex the event loop thread is about to lock
EventWants ==
    CASE handler = "r_window" -> WindowMutex
      [] handler = "r_html" -> HtmlMutex(html_slot)
      [] handler = "r_links" -> LinksMutex
      [] handler = "r_check" -> HtmlMutex(html_slot)
      [] handler = "m_pos" -> MouseMutex
      [] handler = "m_links" -> LinksMutex
      [] handler = "m_clear" -> LinksMutex
      [] handler = "m_window" -> WindowMutex
      [] OTHER -> NoMutex

\* The mutex a task is about to lock
TaskWants(t) ==
    CASE t.pc = "store" /\ Hosted(t.path) # None -> HtmlMutex(t.slot)
      [] t.pc = "window" -> WindowMutex
      [] OTHER -> NoMutex

\* RedrawRequested is delivered because request_redraw was called
EvRedraw ==
    /\ handler = "idle" /\ requested
    /\ slots[html_slot] = None => Cardinality(tasks) < MaxFetches
    /\ handler' = "r_window"
    /\ requested' = FALSE
    /\ UNCHANGED <<cur_path, html_slot, slots, tasks, app_links, walked, clicks,
                   held, pending, mouse,
                   lexVars, parseVars, walkVars, cssVars, loopVars, tailVars>>

\* RedrawRequested is delivered because the window system asks for a frame
EvExpose ==
    /\ handler = "idle"
    /\ slots[html_slot] = None => Cardinality(tasks) < MaxFetches
    /\ handler' = "r_window"
    /\ UNCHANGED <<cur_path, html_slot, slots, tasks, app_links, walked, clicks,
                   held, pending, mouse, requested,
                   lexVars, parseVars, walkVars, cssVars, loopVars, tailVars>>

\* main.rs 74: self.window.lock(), the guard lives to the end of the block
RedrawLockWindow ==
    /\ handler = "r_window" /\ Free(WindowMutex)
    /\ held' = held \cup {Guard(WindowMutex, 0)}
    /\ handler' = "r_html"
    /\ UNCHANGED <<cur_path, html_slot, slots, tasks, app_links, walked, clicks,
                   pending, mouse, requested,
                   lexVars, parseVars, walkVars, cssVars, loopVars, tailVars>>

\* main.rs 117: self.html.lock(), the guard lives to the end of the if let; the
\* walk follows if there is a tree
RedrawLockHtml ==
    /\ handler = "r_html" /\ Free(HtmlMutex(html_slot))
    /\ held' = held \cup {Guard(HtmlMutex(html_slot), 0)}
    /\ handler' = IF slots[html_slot] # None THEN "r_links" ELSE "r_unlock"
    /\ UNCHANGED <<cur_path, html_slot, slots, tasks, app_links, walked, clicks,
                   pending, mouse, requested,
                   lexVars, parseVars, walkVars, cssVars, loopVars, tailVars>>

\* main.rs 318: *self.hyper_links.lock().unwrap() = state.hyper_links
RedrawPublish ==
    /\ handler = "r_links" /\ Free(LinksMutex)
    /\ app_links' = slots[html_slot][1].links
    /\ handler' = "r_unlock"
    /\ UNCHANGED <<cur_path, html_slot, slots, tasks, walked, clicks,
                   held, pending, mouse, requested,
                   lexVars, parseVars, walkVars, cssVars, loopVars, tailVars>>

\* main.rs 319-331: the guards of html and window are dropped
RedrawUnlock ==
    /\ handler = "r_unlock"
    /\ held' = {g \in held : g.by # 0}
    /\ handler' = "r_check"
    /\ UNCHANGED <<cur_path, html_slot, slots, tasks, app_links, walked, clicks,
                   pending, mouse, requested,
                   lexVars, parseVars, walkVars, cssVars, loopVars, tailVars>>

\* main.rs 333-346: self.html.clone().lock().unwrap().is_none(), and the spawn
RedrawCheck ==
    /\ handler = "r_check" /\ Free(HtmlMutex(html_slot))
    /\ tasks' = IF slots[html_slot] = None
                THEN tasks \cup {Task(Cardinality(tasks) + 1, html_slot, cur_path, "fetch",
                                      clicks, -1)}
                ELSE tasks
    /\ handler' = "idle"
    /\ UNCHANGED <<cur_path, html_slot, slots, app_links, walked, clicks,
                   held, pending, mouse, requested,
                   lexVars, parseVars, walkVars, cssVars, loopVars, tailVars>>

\* main.rs 347-350: CursorMoved
EvCursorMoved ==
    /\ handler = "idle" /\ Free(MouseMutex)
    /\ \E p \in MousePoints \ {mouse} : mouse' = p
    /\ UNCHANGED <<cur_path, html_slot, slots, tasks, app_links, handler, walked, clicks,
                   held, pending, requested,
                   lexVars, parseVars, walkVars, cssVars, loopVars, tailVars>>

\* MouseInput is delivered
EvMouseInput ==
    /\ handler = "idle" /\ clicks < MaxInputs
    /\ handler' = "m_pos"
    /\ clicks' = clicks + 1
    /\ UNCHANGED <<cur_path, html_slot, slots, tasks, app_links, walked,
                   held, pending, mouse, requested,
                   lexVars, parseVars, walkVars, cssVars, loopVars, tailVars>>

\* main.rs 352: let pos = self.mouse_cursor_position.lock().unwrap(), the guard
\* lives to the end of the handler
MouseLockPos ==
    /\ handler = "m_pos" /\ Free(MouseMutex)
    /\ held' = held \cup {Guard(MouseMutex, 0)}
    /\ handler' = "m_links"
    /\ UNCHANGED <<cur_path, html_slot, slots, tasks, app_links, walked, clicks,
                   pending, mouse, requested,
                   lexVars, parseVars, walkVars, cssVars, loopVars, tailVars>>

\* main.rs 353: let links = self.hyper_links.lock().unwrap().clone()
MouseCloneLinks ==
    /\ handler = "m_links" /\ Free(LinksMutex)
    /\ pending' = [links |-> app_links, next |-> 1]
    /\ handler' = "m_loop"
    /\ UNCHANGED <<cur_path, html_slot, slots, tasks, app_links, walked, clicks,
                   held, mouse, requested,
                   lexVars, parseVars, walkVars, cssVars, loopVars, tailVars>>

\* main.rs 355-362: the test of the next cloned link; if its box holds the
\* cursor the path becomes its target and App.html a new Arc holding None
MouseTest ==
    /\ handler = "m_loop" /\ pending.next <= Len(pending.links)
    /\ IF contains(pending.links[pending.next].rect, mouse)
       THEN \E s \in {fresh_slot(html_slot, Len(slots))} :
               /\ cur_path' = pending.links[pending.next].path
               /\ html_slot' = s
               /\ slots' = [Append(slots, None) EXCEPT ![s] = None]
               /\ handler' = "m_clear"
               /\ UNCHANGED pending
       ELSE /\ pending' = [pending EXCEPT !.next = @ + 1]
            /\ UNCHANGED <<cur_path, html_slot, slots, handler>>
    /\ UNCHANGED <<tasks, app_links, walked, clicks, held, mouse, requested,
                   lexVars, parseVars, walkVars, cssVars, loopVars, tailVars>>

\* main.rs 363: self.hyper_links.lock().unwrap().clear()
MouseClear ==
    /\ handler = "m_clear" /\ Free(LinksMutex)
    /\ app_links' = <<>>
    /\ handler' = "m_window"
    /\ UNCHANGED <<cur_path, html_slot, slots, tasks, walked, clicks,
                   held, pending, mouse, requested,
                   lexVars, parseVars, walkVars, cssVars, loopVars, tailVars>>

\* main.rs 365-367: self.window.lock(), request_redraw(), and the guard is
\* dropped at the end of the if
MouseRequestRedraw ==
    /\ handler = "m_window" /\ Free(WindowMutex)
    /\ requested' = TRUE
    /\ pending' = [pending EXCEPT !.next = @ + 1]
    /\ handler' = "m_loop"
    /\ UNCHANGED <<cur_path, html_slot, slots, tasks, app_links, walked, clicks,
                   held, mouse,
                   lexVars, parseVars, walkVars, cssVars, loopVars, tailVars>>

\* main.rs 368-369: the loop is over, the guard of the cursor is dropped
MouseEnd ==
    /\ handler = "m_loop" /\ pending.next > Len(pending.links)
    /\ held' = {g \in held : g.by # 0}
    /\ pending' = NoPending
    /\ handler' = "idle"
    /\ UNCHANGED <<cur_path, html_slot, slots, tasks, app_links, walked, clicks,
                   mouse, requested,
                   lexVars, parseVars, walkVars, cssVars, loopVars, tailVars>>

\* main.rs 339: the response of fetch(path) arrives, or fetch fails and the
\* task ends in unwrap's panic
TaskResponse ==
    \E t \in tasks :
        /\ t.pc = "fetch"
        /\ tasks' = (tasks \ {t}) \cup {[t EXCEPT !.pc = "store"]}
        /\ UNCHANGED <<cur_path, html_slot, slots, app_links, handler, walked, clicks,
                       lockVars,
                       lexVars, parseVars, walkVars, cssVars, loopVars, tailVars>>

\* main.rs 340: parse_html(resp).unwrap(), evaluated before the assignee, and
\* then html.lock(); a panic of the unwrap ends the task with no guard alive
TaskLockHtml ==
    \E t \in tasks :
        /\ t.pc = "store"
        /\ IF Hosted(t.path) = None
           THEN /\ tasks' = (tasks \ {t}) \cup {[t EXCEPT !.pc = "done"]}
                /\ UNCHANGED held
           ELSE /\ Free(HtmlMutex(t.slot))
                /\ held' = held \cup {Guard(HtmlMutex(t.slot), t.id)}
                /\ tasks' = (tasks \ {t}) \cup {[t EXCEPT !.pc = "write"]}
        /\ UNCHANGED <<cur_path, html_slot, slots, app_links, handler, walked, clicks,
                       pending, mouse, requested,
                       lexVars, parseVars, walkVars, cssVars, loopVars, tailVars>>

\* main.rs 340: the store through the guard, and the end of the statement
TaskWrite ==
    \E t \in tasks :
        /\ t.pc = "write"
        /\ slots' = [slots EXCEPT ![t.slot] = Hosted(t.path)]
        /\ held' = guard_after_store(held, HtmlMutex(t.slot), t.id)
        /\ tasks' = (tasks \ {t}) \cup {[t EXCEPT !.pc = "window", !.stored = clicks]}
        /\ UNCHANGED <<cur_path, html_slot, app_links, handler, walked, clicks,
                       pending, mouse, requested,
                       lexVars, parseVars, walkVars, cssVars, loopVars, tailVars>>

\* main.rs 342: let window = window.lock().unwrap()
TaskLockWindow ==
    \E t \in tasks :
        /\ t.pc = "window" /\ Free(WindowMutex)
        /\ held' = held \cup {Guard(WindowMutex, t.id)}
        /\ tasks' = (tasks \ {t}) \cup {[t EXCEPT !.pc = "notify"]}
        /\ UNCHANGED <<cur_path, html_slot, slots, app_links, handler, walked, clicks,
                       pending, mouse, requested,
                       lexVars, parseVars, walkVars, cssVars, loopVars, tailVars>>

\* main.rs 343-344: request_redraw(), and the task ends: its guards are dropped
TaskNotify ==
    \E t \in tasks :
        /\ t.pc = "notify"
        /\ requested' = TRUE
        /\ held' = {g \in held : g.by # t.id}
        /\ tasks' = (tasks \ {t}) \cup {[t EXCEPT !.pc = "done"]}
        /\ UNCHANGED <<cur_path, html_slot, slots, app_links, handler, walked, clicks,
                       pending, mouse,
                       lexVars, parseVars, walkVars, cssVars, loopVars, tailVars>>

\* The steps of a handler that has been entered
HandlerSteps ==
    \/ RedrawLockWindow \/ RedrawLockHtml \/ RedrawPublish \/ RedrawUnlock \/ RedrawCheck
    \/ MouseLockPos \/ MouseCloneLinks \/ MouseTest \/ MouseClear
    \/ MouseRequestRedraw \/ MouseEnd
EventSteps == EvRedraw \/ EvExpose \/ EvCursorMoved \/ EvMouseInput \/ HandlerSteps
TaskSteps == TaskResponse \/ TaskLockHtml \/ TaskWrite \/ TaskLockWindow \/ TaskNotify

InitLock == InitApp
NextLock == EventSteps \/ TaskSteps
SpecLock == InitLock /\ [][NextLock]_vars

\* The same application where a handler that has been entered runs on, a task
\* that can take a step takes one (the runtime polls it, the response of the
\* fetch arrives), and a redraw that was requested is delivered.
Fairness == WF_vars(HandlerSteps) /\ WF_vars(TaskSteps) /\ WF_vars(EvRedraw)
SpecNav == SpecLock /\ Fairness

(***************************************************************************)
(* The mutexes, checked under SpecLock.                                    *)
(***************************************************************************)
Threads == {0} \cup {t.id : t \in tasks}
Wants(th) == IF th = 0 THEN EventWants ELSE TaskWants(CHOOSE t \in tasks : t.id = th)

\* Thread th is about to lock a mutex whose guard thread other holds
WaitsFor(th, other) ==
    \E g \in held : g.by = other /\ Mutex(g.m, g.n) = Wants(th)

\* C31: in no reachable state is there a set of threads (the event loop thread
\* and a task, two tasks, or a thread on its own) each of which is about to
\* lock a mutex that a thread of the set holds.
C31_NoDeadlock ==
    \A waiting \in (SUBSET Threads) \ {{}} :
        \E th \in waiting : \A other \in waiting : ~WaitsFor(th, other)

\* The event loop thread holds the window in a redraw and is about to lock the
\* html mutex, which a task holds for its store; the task locks the window next.
C31_Witness ==
    /\ handler = "r_html"
    /\ Guard(WindowMutex, 0) \in held
    /\ \E t \in tasks :
          /\ t.pc = "write" /\ t.slot = html_slot
          /\ Guard(HtmlMutex(html_slot), t.id) \in held
          /\ WaitsFor(0, t.id)

(***************************************************************************)
(* A click, checked under SpecNav.                                         *)
(***************************************************************************)
\* The cloned links whose box holds the cursor
Hits == {i \in 1..Len(pending.links) : contains(pending.links[i].rect, mouse)}

\* The loop of MouseInput is over and at least one box held the cursor
ClickHandled ==
    /\ handler = "m_loop" /\ pending.next > Len(pending.links)
    /\ Hits # {}

\* C32, as the claim states it: after a click inside a recorded hit-box the
\* path is that link's target, whichever hit link it is (no other hit-box of the
\* page has navigated further), the tree slot holds no tree and the published
\* list is empty.
C32_ClickGoesToTheLink ==
    ClickHandled =>
        /\ \A i \in Hits : cur_path = pending.links[i].path
        /\ slots[html_slot] = None
        /\ app_links = <<>>

\* C32, as the code has it: after a click the path is the target of the last
\* recorded link whose box holds the cursor, the tree slot holds no tree and
\* the published list is empty.
C32_ClickGoesToTheLastLink ==
    ClickHandled =>
        /\ cur_path = pending.links[CHOOSE i \in Hits : \A j \in Hits : j <= i].path
        /\ slots[html_slot] = None
        /\ app_links = <<>>

\* C32, where one box holds the cursor, the claim holds as stated.
C32_OneBoxGoesToItsLink ==
    (ClickHandled /\ Cardinality(Hits) = 1) =>
        /\ \A i \in Hits : cur_path = pending.links[i].path
        /\ slots[html_slot] = None
        /\ app_links = <<>>

\* The cursor was inside the boxes of two links of different targets, and the
\* click has gone to the second.
C32_Witness ==
    /\ ClickHandled
    /\ \E i, j \in Hits :
          /\ i < j
          /\ pending.links[i].path # pending.links[j].path
          /\ cur_path = pending.links[j].path

\* A redraw has walked the tree fetched for path p and published its links
Shown(p) ==
    /\ handler = "r_unlock"
    /\ cur_path = p
    /\ slots[html_slot] # None
    /\ slots[html_slot] = Hosted(p)
    /\ app_links = Hosted(p)[1].links

\* C32, what follows the click: if the page of the path the click has left is
\* served and parses (and a fetch can still be spawned), a redraw eventually
\* walks its tree and publishes its links.
C32_TargetIsShown ==
    \A p \in {"", "a"} :
        (ClickHandled /\ cur_path = p /\ Cardinality(tasks) < MaxFetches) ~> Shown(p)

\* Until then the published list stays empty: no box of the page left behind
\* is there for a later click.
C32_NoLinksUntilShown ==
    (slots[html_slot] = None /\ clicks > 0 /\ handler \notin {"m_pos", "m_links", "m_loop", "m_clear"})
        => app_links = <<>>

(***************************************************************************)
(* The boxes of a page whose second link is drawn over the first, checked  *)
(* under SpecPage.                                                         *)
(***************************************************************************)
\* A finished walk has collected two links of different targets whose boxes
\* hold a common point, the left top corner of the second.
OverlappingLinks ==
    /\ walkpc = "done"
    /\ \E i, j \in 1..Len(state.hyper_links) :
          /\ i < j
          /\ state.hyper_links[i].path # state.hyper_links[j].path
          /\ contains(state.hyper_links[i].rect,
                      <<state.hyper_links[j].rect.left, state.hyper_links[j].rect.top>>)

\* A finished walk has collected exactly the two boxes the pages of the
\* application are given: the second link drawn over the end of the first.
WalkedBoxes ==
    /\ walkpc = "done"
    /\ [i \in 1..Len(state.hyper_links) |-> state.hyper_links[i].rect] = <<WideBox, LateBox>>
    /\ state.hyper_links[1].path # state.hyper_links[2].path

====
